---- MODULE Spec2Model ----
(***************************************************************************)
(* Discord disputes bot, multi-origin version (src/bot.js 1075-2104).      *)
(* The bot is a set of async event handlers over six in-memory maps.  A    *)
(* handler runs synchronously up to its next await; every await is one     *)
(* platform call that succeeds or fails.  A handler is modelled as a       *)
(* record with a position (pc) and its locals; one action per await.       *)
(***************************************************************************)
EXTENDS Integers, Sequences, FiniteSets, TLC

VARIABLES
    disputeToRefThread,   \* disputeThreadId -> refThreadId (0: no entry)
    playerToRefThread,    \* userId -> refThreadId (0: no entry)
    refThreadToPlayer,    \* refThreadId -> raiser userId
    refThreadToOrigin,    \* refThreadId -> {originGuildId, channelId, messageId}
    closedPlayers,        \* userIds with closed dispute
    refMeta,              \* refThreadId -> {p1Id,p2Id,issue,playerCountry,opponentCountry,originGuildId}
    created,              \* platform: number of referee threads created so far
    alive,                \* platform: referee threads that still exist
    threadParent,         \* platform: channel a thread was created under
    threadMembers,        \* platform: members of each referee thread
    threadName,           \* platform: name of each referee thread
    archived,             \* platform: archived referee threads
    locked,               \* platform: locked referee threads
    hs,                   \* the running handlers, one record per slot
    eventsLeft,           \* bound: gateway events still to be dispatched
    faultsLeft,           \* bound: platform calls that may still fail
    profile,              \* which input alphabet the run draws from
    shut,                 \* history: users closed by /close, no valid trigger since
    closedRefs            \* history: threads on which /close completed, untouched since

vars == <<disputeToRefThread, playerToRefThread, refThreadToPlayer, refThreadToOrigin,
          closedPlayers, refMeta, created, alive, threadParent, threadMembers,
          threadName, archived, locked, hs, eventsLeft, faultsLeft, profile,
          shut, closedRefs>>

maps == <<disputeToRefThread, playerToRefThread, refThreadToPlayer, refThreadToOrigin,
          closedPlayers, refMeta>>

platform == <<created, alive, threadParent, threadMembers, threadName, archived, locked>>

\* ------------------------------------------------------------------ bounds
MaxThreads == 2
MaxEvents == 3
MaxFaults == 2
MaxRouteEvents == 4
MaxRouteFaults == 1
MaxChans == 2
MaxCmdEvents == 3
MaxCmdFaults == 1
MaxReopenEvents == 4
MaxReopenFaults == 1
MaxRaceEvents == 3
MaxRaceFaults == 1
Slots == {1}

\* ------------------------------------------------------------ identifiers
None == "none"
Users == {"u1", "u2"}
BotUser == "bot"
Threads == 1..MaxThreads
\* a thread channel the bot did not create: no map has an entry for it
ForeignThread == MaxThreads + 1

GYM_GUILD_ID == "gym"
RAID_GUILD_ID == "raid"
OTHER_GUILD_ID == "other"
DEST_GUILD_ID == GYM_GUILD_ID
DEST_REF_HUB_CHANNEL_ID == "refHub"
REF_ROLE_ID == "refRole"
JR_REF_ROLE_ID == "jrRole"
GYM_DISPUTE_CHANNEL_ID == "gymDispute"
GYM_TRIGGER_ROLE_ID == REF_ROLE_ID
RAID_DISPUTE_CHANNEL_ID == "raidDispute"
RAID_TRIGGER_ROLE_ID == "raidRef"

ORIGINS ==
    [g \in {GYM_GUILD_ID, RAID_GUILD_ID} |->
        IF g = GYM_GUILD_ID
        THEN [disputeChannelId |-> GYM_DISPUTE_CHANNEL_ID, triggerRoleId |-> GYM_TRIGGER_ROLE_ID]
        ELSE [disputeChannelId |-> RAID_DISPUTE_CHANNEL_ID, triggerRoleId |-> RAID_TRIGGER_ROLE_ID]]

\* ------------------------------------------------------------------ roles
\* A role name is a sequence of characters.
Role(id, name) == [id |-> id, name |-> name]
RoleG == Role("cG", <<"[", "G", "]">>)
RoleF == Role("cF", <<"[", "F", "]">>)
RoleE == Role("cE", <<"[", "]">>)
RoleXf == Role("cXf", <<"x", "[", "f", "]">>)
RolePlain == Role("plain", <<"p">>)
RoleRef == Role(REF_ROLE_ID, <<"R">>)
RoleJr == Role(JR_REF_ROLE_ID, <<"J">>)
RoleRaidRef == Role(RAID_TRIGGER_ROLE_ID, <<"R">>)
NoCountry == [id |-> None, name |-> <<>>]

\* String.prototype.toLowerCase on one character
LowerChar(c) ==
    IF c = "G" THEN "g" ELSE IF c = "F" THEN "f"
    ELSE IF c = "R" THEN "r" ELSE IF c = "J" THEN "j" ELSE c

\* /\[.*\]/.test(name)
HasBracket(name) ==
    \E i \in 1..Len(name) : \E j \in (i+1)..Len(name) : name[i] = "[" /\ name[j] = "]"

\* position of the first "]" after position i, 0 when there is none
FirstClose(name, i) ==
    LET js == {j \in (i+1)..Len(name) : name[j] = "]"}
    IN IF js = {} THEN 0 ELSE CHOOSE j \in js : \A k \in js : j <= k

\* bracketCode: (name?.match(/\[([^\]]+)\]/)?.[1] || '').toLowerCase()
bracketCode(name) ==
    LET starts == {i \in 1..Len(name) : name[i] = "[" /\ FirstClose(name, i) >= i + 2}
    IN IF starts = {} THEN <<>>
       ELSE LET i == CHOOSE x \in starts : \A y \in starts : x <= y
                j == FirstClose(name, i)
            IN [k \in 1..(j - i - 1) |-> LowerChar(name[i + k])]

\* first element of a sequence of roles that satisfies Test, NoCountry when none
RECURSIVE FindRole(_, _, _)
FindRole(roles, exclude, i) ==
    IF i > Len(roles) THEN NoCountry
    ELSE IF HasBracket(roles[i].name) /\ (exclude = <<>> \/ roles[i].name # exclude)
         THEN roles[i]
         ELSE FindRole(roles, exclude, i + 1)

getMemberCountry(memberRoles) == FindRole(memberRoles, <<>>, 1)

getOpponentCountryAnyBracketed(message, excludeName) == FindRole(message.mentions, <<>>, 1)

\* [...message.mentions.roles.values()].find(r => /\[.*\]/.test(r.name) &&
\*     (!excludeName || r.name !== excludeName))
getOpponentCountryFromMessage(message, excludeName) == FindRole(message.mentions, excludeName, 1)

messageMentionsRole(message, roleId) ==
    (\E i \in 1..Len(message.mentions) : message.mentions[i].id = roleId)
    \/ roleId \in message.contentTags

\* roles of a member of an origin guild (platform data)
OriginMemberRoles(u) ==
    IF u = "u1" THEN <<RoleG>>
    ELSE IF u = "u2" THEN <<RolePlain, RoleF>>
    ELSE <<>>

\* members of the destination guild and their roles (platform data)
DestMembers == <<"r1", "r2">>
DestMemberRoles(m) ==
    IF m = "r1" THEN <<RoleRef, RoleG>>
    ELSE IF m = "r2" THEN <<RoleJr, RoleXf>>
    ELSE <<>>

SeqRange(s) == {s[i] : i \in 1..Len(s)}
HasRole(m, roleId) == \E i \in 1..Len(DestMemberRoles(m)) : DestMemberRoles(m)[i].id = roleId

\* ---------------------------------------------------------------- messages
\* ------------------------------------------------ decision channel lookup
\* [a-z0-9]
Alnum ==
    {"a", "b", "c", "d", "e", "f", "g", "h", "i", "j", "k", "l", "m", "n", "o", "p", "q",
     "r", "s", "t", "u", "v", "w", "x", "y", "z",
     "0", "1", "2", "3", "4", "5", "6", "7", "8", "9"}

\* .toLowerCase().replace(/[^a-z0-9]+/g, '-'): every run of other characters is one '-'
RECURSIVE Dashed(_, _)
Dashed(name, i) ==
    IF i > Len(name) THEN <<>>
    ELSE IF LowerChar(name[i]) \in Alnum THEN <<LowerChar(name[i])>> \o Dashed(name, i + 1)
    ELSE IF i > 1 /\ LowerChar(name[i - 1]) \notin Alnum THEN Dashed(name, i + 1)
    ELSE <<"-">> \o Dashed(name, i + 1)

\* .replace(/^-+|-+$/g, ''): after Dashed there is at most one '-' at either end
Trimmed(d) ==
    LET from == IF d # <<>> /\ Head(d) = "-" THEN 2 ELSE 1
        to == IF d # <<>> /\ d[Len(d)] = "-" THEN Len(d) - 1 ELSE Len(d)
    IN SubSeq(d, from, to)

\* const slug = s => (s || '').toLowerCase().replace(...).replace(...)
slug(name) == Trimmed(Dashed(name, 1))

\* String.prototype.includes
Includes(name, part) ==
    \E i \in 0..(Len(name) - Len(part)) : SubSeq(name, i + 1, i + Len(part)) = part

\* /^post|^result/.test(name)
StartsWith(name, word) == Len(name) >= Len(word) /\ SubSeq(name, 1, Len(word)) = word
PostOrResult(name) ==
    \/ StartsWith(name, <<"p", "o", "s", "t">>)
    \/ StartsWith(name, <<"r", "e", "s", "u", "l", "t">>)

\* a channel of a guild's cache, and null
NamedChan(id, type, name) == [id |-> id, type |-> type, name |-> name]
NoChan == NamedChan(None, None, <<>>)
NoGuild == [present |-> FALSE, channels |-> <<>>]
Guild(channels) == [present |-> TRUE, channels |-> channels]

\* Collection.filter / find / first, in cache order
RECURSIVE Filtered(_, _, _)
Filtered(channels, a, b) ==
    IF channels = <<>> THEN <<>>
    ELSE LET c == Head(channels) IN
         IF c.type = "GuildText" /\ Includes(c.name, a) /\ Includes(c.name, b)
         THEN <<c>> \o Filtered(Tail(channels), a, b)
         ELSE Filtered(Tail(channels), a, b)

RECURSIVE FirstPreferred(_)
FirstPreferred(chans) ==
    IF chans = <<>> THEN NoChan
    ELSE IF PostOrResult(Head(chans).name) THEN Head(chans)
    ELSE FirstPreferred(Tail(chans))

findDecisionChannelFirstMatch(guild, countryA, countryB) ==
    IF ~guild.present \/ countryA = <<>> \/ countryB = <<>> THEN NoChan
    ELSE LET chans == Filtered(guild.channels, slug(countryA), slug(countryB))
         IN IF chans # <<>> THEN Head(chans) ELSE NoChan

\* findDecisionChannel(guild, countryA, countryB); a missing name is <<>>
findDecisionChannel(guild, countryA, countryB) ==
    IF ~guild.present \/ countryA = <<>> \/ countryB = <<>> THEN NoChan
    ELSE LET chans == Filtered(guild.channels, slug(countryA), slug(countryB))
         IN IF FirstPreferred(chans) # NoChan THEN FirstPreferred(chans)
            ELSE IF chans # <<>> THEN Head(chans)
            ELSE NoChan

\* channels a guild can have
ChanPostGF == NamedChan("c1", "GuildText", <<"p", "o", "s", "t", "-", "g", "-", "f">>)
ChanGF == NamedChan("c2", "GuildText", <<"g", "-", "f">>)
ChanResultsFG == NamedChan("c3", "GuildText", <<"r", "e", "s", "u", "l", "t", "s", "-", "f", "-", "g">>)
ChanVoiceGF == NamedChan("c4", "GuildVoice", <<"g", "-", "f">>)
ChanF == NamedChan("c5", "GuildText", <<"f">>)
ChanPostXF == NamedChan("c6", "GuildText", <<"p", "o", "s", "t", "-", "x", "-", "f">>)
ChannelPool == {ChanPostGF, ChanGF, ChanResultsFG, ChanVoiceGF, ChanF, ChanPostXF}

\* the caches a guild can have: lists of distinct channels, at most MaxChans long
GuildCaches ==
    {c \in UNION {[1..n -> ChannelPool] : n \in 0..MaxChans} :
        \A i \in 1..Len(c) : \A j \in 1..Len(c) : i # j => c[i] # c[j]}

\* the country names findDecisionChannel is called with
CountryArgs ==
    {<<>>, <<"[", "G", "]">>, <<"[", "F", "]">>, <<"x", "[", "f", "]">>, <<"[", "]">>}

Channel(id, parentId, type) == [id |-> id, parentId |-> parentId, type |-> type]
GymChan == Channel(GYM_DISPUTE_CHANNEL_ID, None, "GuildText")
GymThread == Channel("d1", GYM_DISPUTE_CHANNEL_ID, "PublicThread")
GymOther == Channel("gymChat", None, "GuildText")
RaidChan == Channel(RAID_DISPUTE_CHANNEL_ID, None, "GuildText")
RaidThread == Channel("d2", RAID_DISPUTE_CHANNEL_ID, "PublicThread")
OtherChan == Channel("otherChat", None, "GuildText")
DmChan == Channel("dm", None, "DM")
GroupDmChan == Channel("gdm", None, "GroupDM")
DisputeThreads == {"d1", "d2"}

Msg(g, a, c, ms, ct, f) ==
    [guild |-> g, author |-> a, channel |-> c, mentions |-> ms, contentTags |-> ct, files |-> f]

\* messages in a dispute channel (or a thread of it) that mention its trigger role
TriggerMessages ==
    {Msg(GYM_GUILD_ID, a, c, <<RoleRef, r>>, {}, FALSE) :
        a \in Users, c \in {GymChan, GymThread}, r \in {RoleG, RoleF, RoleE}}
    \cup
    {Msg(RAID_GUILD_ID, "u1", c, <<RoleRaidRef, RoleF>>, {}, FALSE) : c \in {RaidChan, RaidThread}}
    \cup
    {Msg(GYM_GUILD_ID, "u1", GymChan, <<RoleF>>, {GYM_TRIGGER_ROLE_ID}, FALSE),
     Msg(GYM_GUILD_ID, "u2", GymChan, <<RoleRef>>, {}, FALSE)}

\* messages that miss one of the trigger conditions
OtherMessages ==
    {Msg(GYM_GUILD_ID, BotUser, GymChan, <<RoleRef, RoleF>>, {}, FALSE),
     Msg(OTHER_GUILD_ID, "u1", OtherChan, <<RoleRef, RoleF>>, {GYM_TRIGGER_ROLE_ID}, FALSE),
     Msg(GYM_GUILD_ID, "u1", GymOther, <<RoleRef, RoleF>>, {}, FALSE),
     Msg(GYM_GUILD_ID, "u1", GymChan, <<RoleF>>, {}, FALSE),
     Msg(GYM_GUILD_ID, "u1", GymChan, <<RoleF>>, {RAID_TRIGGER_ROLE_ID}, FALSE),
     Msg(RAID_GUILD_ID, "u1", RaidChan, <<RoleF>>, {GYM_TRIGGER_ROLE_ID}, FALSE)}

\* direct messages and other messages outside every guild
DirectMessages ==
    {Msg(None, a, DmChan, <<>>, {}, f) : a \in Users, f \in BOOLEAN}
    \cup
    {Msg(None, BotUser, DmChan, <<>>, {}, FALSE), Msg(None, "u1", GroupDmChan, <<>>, {}, FALSE)}

Messages == TriggerMessages \cup OtherMessages \cup DirectMessages

NoMsg == [guild |-> None, author |-> None, channel |-> DmChan, mentions |-> <<>>,
          contentTags |-> {}, files |-> FALSE]

\* the inputs of the routing runs: long runs over few kinds of message
RouteMessages ==
    {Msg(None, a, DmChan, <<>>, {}, f) : a \in Users, f \in BOOLEAN}
    \cup
    {Msg(GYM_GUILD_ID, a, c, <<RoleRef, RoleE>>, {}, FALSE) : a \in Users, c \in {GymChan, GymThread}}
    \cup
    {Msg(GYM_GUILD_ID, "u1", GymChan, <<RoleRef, RoleG>>, {}, FALSE)}

\* the inputs of the command runs: one dispute of each origin, and the raiser's DMs
CmdMessages ==
    {Msg(GYM_GUILD_ID, "u1", c, <<RoleRef, RoleF>>, {}, FALSE) : c \in {GymChan, GymThread}}
    \cup
    {Msg(RAID_GUILD_ID, "u1", RaidChan, <<RoleRaidRef, RoleF>>, {}, FALSE),
     Msg(GYM_GUILD_ID, "u1", GymChan, <<RoleRef, RoleG>>, {}, FALSE),
     Msg(None, "u1", DmChan, <<>>, {}, TRUE)}

\* the inputs of the interleaved runs: triggers in one dispute thread, one
\* trigger without an opponent, and the raiser's DMs
RaceMessages ==
    {Msg(GYM_GUILD_ID, a, GymThread, <<RoleRef, RoleE>>, {}, FALSE) : a \in Users}
    \cup
    {Msg(GYM_GUILD_ID, "u1", GymChan, <<RoleRef, RoleG>>, {}, FALSE),
     Msg(None, "u1", DmChan, <<>>, {}, TRUE)}

MessagesOf(p) ==
    IF p = "route" THEN RouteMessages ELSE IF p = "cmd" THEN CmdMessages
    ELSE IF p = "race" THEN RaceMessages ELSE Messages

\* ---------------------------------------------------------- handler record
NoCmd == [name |-> None, thread |-> 0, p1 |-> None, p2 |-> None, issue |-> None,
          target |-> None, channel |-> NoChan, opts |-> <<>>]
NoMeta == [set |-> FALSE, p1Id |-> None, p2Id |-> None, issue |-> None,
           playerCountry |-> NoCountry, opponentCountry |-> NoCountry, originGuildId |-> None]
NoOrigin == [originGuildId |-> None, channelId |-> None, messageId |-> None]

Idle ==
    [kind |-> None, pc |-> "idle", msg |-> NoMsg, cmd |-> NoCmd,
     playerCountry |-> NoCountry, opponentCountry |-> NoCountry,
     mapped |-> 0, ref |-> 0, made |-> 0, queue |-> <<>>, cur |-> None,
     added |-> 0, kicked |-> <<>>, examined |-> {}, names |-> <<>>,
     noOppReply |-> "no", dm |-> "no", fallback |-> "no", closedReply |-> "no",
     cmdReply |-> "no", said |-> None, before |-> {}, fwd |-> 0, replies |-> 0, dms |-> 0, searched |-> FALSE,
     cache |-> {}, refFetch |-> "no",
     guild |-> NoGuild, target |-> NoChan, posted |-> NoChan, notice |-> "no",
     echo |-> "no", marks |-> <<>>, items |-> <<>>, reacts |-> <<>>, posts |-> 0,
     failed |-> FALSE, rmFailed |-> FALSE, threw |-> FALSE]

Outcome(ok) == IF ok THEN "ok" ELSE "fail"
Resting(h) == h.pc \in {"idle", "done"}
Quiet == \A s \in Slots : Resting(hs[s])
Done(h) == [h EXCEPT !.pc = "done"]
\* an exception that reaches the handler's outer catch (or is an unhandled rejection)
Throw(h) == [h EXCEPT !.pc = "done", !.threw = TRUE, !.failed = TRUE]
Put(s, h) == hs' = [hs EXCEPT ![s] = h]

\* the outcomes of one platform call: it can succeed only when its target is
\* there, and it fails on its own only while the run's fault bound allows
Try(possible) == {ok \in BOOLEAN : (ok => possible) /\ ((~ok /\ possible) => faultsLeft > 0)}
Charge(ok, possible) == faultsLeft' = IF ~ok /\ possible THEN faultsLeft - 1 ELSE faultsLeft

InitBase ==
    /\ disputeToRefThread = [d \in DisputeThreads |-> 0]
    /\ playerToRefThread = [u \in Users |-> 0]
    /\ refThreadToPlayer = [t \in Threads |-> None]
    /\ refThreadToOrigin = [t \in Threads |-> NoOrigin]
    /\ closedPlayers = {}
    /\ refMeta = [t \in Threads |-> NoMeta]
    /\ created = 0
    /\ alive = {}
    /\ threadParent = [t \in Threads |-> None]
    /\ threadMembers = [t \in Threads |-> {}]
    /\ threadName = [t \in Threads |-> <<>>]
    /\ archived = {}
    /\ locked = {}
    /\ shut = {}
    /\ closedRefs = {}

InitMaps == InitBase /\ hs = [s \in Slots |-> Idle]

Init == InitMaps /\ eventsLeft = MaxEvents /\ faultsLeft = MaxFaults /\ profile = "full"

InitRoute ==
    InitMaps /\ eventsLeft = MaxRouteEvents /\ faultsLeft = MaxRouteFaults /\ profile = "route"

\* ------------------------------------------------- MessageCreate: listeners
IsTriggerAnyOriginRole(m) ==
    /\ m.guild # None
    /\ m.author # BotUser
    /\ m.guild \in DOMAIN ORIGINS
    /\ \/ m.channel.id = ORIGINS[m.guild].disputeChannelId
       \/ m.channel.parentId = ORIGINS[m.guild].disputeChannelId
    /\ \E g \in DOMAIN ORIGINS : messageMentionsRole(m, ORIGINS[g].triggerRoleId)

\* the synchronous checks of the dispute-trigger listener
IsTrigger(m) ==
    /\ m.guild # None
    /\ m.author # BotUser
    /\ m.guild \in DOMAIN ORIGINS
    /\ \/ m.channel.id = ORIGINS[m.guild].disputeChannelId
       \/ m.channel.parentId = ORIGINS[m.guild].disputeChannelId
    /\ messageMentionsRole(m, ORIGINS[m.guild].triggerRoleId)

\* the synchronous checks of the DM-mirror listener: "drop", "closed" or "forward"
DmRoute(m, p2r, closed) ==
    IF m.guild # None \/ m.author = BotUser \/ m.channel.type # "DM" THEN "drop"
    ELSE IF p2r[m.author] = 0 THEN "drop"
    ELSE IF m.author \in closed THEN "closed"
    ELSE "forward"

DmTargetFirstRaised(p2r, uid) ==
    LET own == {t \in Threads : refThreadToPlayer[t] = uid}
    IN IF own = {} THEN p2r[uid] ELSE CHOOSE t \in own : \A k \in own : t <= k

\* const refThreadId = playerToRefThread.get(uid): the one thread a DM goes to
DmTarget(p2r, uid) == p2r[uid]

\* both MessageCreate listeners see the message; at most one of them goes on
MessageCreate(s) ==
    /\ Resting(hs[s])
    /\ eventsLeft > 0
    /\ \E m \in MessagesOf(profile) :
         LET h0 == [Idle EXCEPT !.msg = m]
             route == DmRoute(m, playerToRefThread, closedPlayers)
         IN
         /\ IF IsTrigger(m)
            THEN Put(s, [h0 EXCEPT !.kind = "trigger", !.pc = "fetchMember"])
            ELSE IF route = "closed"
            THEN Put(s, [h0 EXCEPT !.kind = "dm", !.pc = "closedReply"])
            ELSE IF route = "forward"
            THEN Put(s, [h0 EXCEPT !.kind = "dm", !.pc = "dmFetch",
                                   !.ref = DmTarget(playerToRefThread, m.author)])
            ELSE Put(s, [h0 EXCEPT !.kind = IF m.guild = None THEN "dm" ELSE "trigger",
                                   !.pc = "done"])
         /\ shut' = IF IsTrigger(m) THEN shut \ {m.author} ELSE shut
    /\ eventsLeft' = eventsLeft - 1
    /\ UNCHANGED <<maps, platform, faultsLeft, profile, closedRefs>>

\* ------------------------------------------------ dispute trigger listener
IsThread(ch) == ch.type \in {"PublicThread", "PrivateThread"}

\* await message.guild.members.fetch(message.author.id), then the countries
FetchMember(s) ==
    LET h == hs[s] IN
    /\ h.kind = "trigger" /\ h.pc = "fetchMember"
    /\ \E ok \in Try(TRUE) :
         /\ Charge(ok, TRUE)
         /\ IF ~ok THEN Put(s, Throw(h))
            ELSE LET pcy == getMemberCountry(OriginMemberRoles(h.msg.author))
                     opp == getOpponentCountryFromMessage(h.msg, pcy.name)
                 IN Put(s, [h EXCEPT !.playerCountry = pcy, !.opponentCountry = opp,
                                     !.searched = TRUE,
                                     !.pc = IF opp.name = <<>> THEN "replyNoOpp" ELSE "fetchDest"])
    /\ UNCHANGED <<maps, platform, eventsLeft, profile, shut, closedRefs>>

\* await message.reply('I couldn't detect an opponent country ...'); return
ReplyNoOpp(s) ==
    LET h == hs[s] IN
    /\ h.kind = "trigger" /\ h.pc = "replyNoOpp"
    /\ \E ok \in Try(TRUE) :
         /\ Charge(ok, TRUE)
         /\ Put(s, [(IF ok THEN Done(h) ELSE Throw(h)) EXCEPT !.noOppReply = Outcome(ok),
                                                              !.replies = h.replies + 1])
    /\ UNCHANGED <<maps, platform, eventsLeft, profile, shut, closedRefs>>

\* const destGuild = await client.guilds.fetch(DEST_GUILD_ID)...catch(() => null)
FetchDest(s) ==
    LET h == hs[s] IN
    /\ h.kind = "trigger" /\ h.pc = "fetchDest"
    /\ \E ok \in Try(TRUE) :
         /\ Charge(ok, TRUE)
         /\ IF ~ok THEN Put(s, [Done(h) EXCEPT !.failed = TRUE])
            ELSE IF IsThread(h.msg.channel)
            THEN Put(s, [h EXCEPT !.mapped = disputeToRefThread[h.msg.channel.id],
                                  !.pc = "fetchRef"])
            ELSE Put(s, [h EXCEPT !.pc = "fetchHub"])
    /\ UNCHANGED <<maps, platform, eventsLeft, profile, shut, closedRefs>>

SeedKeepsClosed(h, t) ==
    /\ refMeta' = [refMeta EXCEPT ![t] =
          [set |-> TRUE, p1Id |-> h.msg.author, p2Id |-> None, issue |-> None,
           playerCountry |-> h.playerCountry, opponentCountry |-> h.opponentCountry,
           originGuildId |-> h.msg.guild]]
    /\ playerToRefThread' = [playerToRefThread EXCEPT ![h.msg.author] = t]
    /\ refThreadToPlayer' = [refThreadToPlayer EXCEPT ![t] = h.msg.author]
    /\ refThreadToOrigin' = [refThreadToOrigin EXCEPT ![t] =
          [originGuildId |-> h.msg.guild, channelId |-> h.msg.channel.id, messageId |-> "m"]]
    /\ closedPlayers' = closedPlayers
    /\ closedRefs' = closedRefs \ {t}

\* the writes of the trigger listener once refThread is known (lines 1383-1399)
Seed(h, t) ==
    /\ refMeta' = [refMeta EXCEPT ![t] =
          [set |-> TRUE, p1Id |-> h.msg.author, p2Id |-> None, issue |-> None,
           playerCountry |-> h.playerCountry, opponentCountry |-> h.opponentCountry,
           originGuildId |-> h.msg.guild]]
    /\ playerToRefThread' = [playerToRefThread EXCEPT ![h.msg.author] = t]
    /\ refThreadToPlayer' = [refThreadToPlayer EXCEPT ![t] = h.msg.author]
    /\ refThreadToOrigin' = [refThreadToOrigin EXCEPT ![t] =
          [originGuildId |-> h.msg.guild, channelId |-> h.msg.channel.id, messageId |-> "m"]]
    /\ closedPlayers' = closedPlayers \ {h.msg.author}
    /\ closedRefs' = closedRefs \ {t}

ReuseNever(found) == FALSE

\* if (!refThread): whether the thread the fetch returned is reused
ReuseRef(found) == found

\* await destGuild.channels.fetch(disputeToRefThread.get(id) || '0').catch(() => null)
FetchRef(s) ==
    LET h == hs[s] IN
    /\ h.kind = "trigger" /\ h.pc = "fetchRef"
    /\ \E ok \in Try(h.mapped \in alive) :
         /\ Charge(ok, h.mapped \in alive)
         /\ IF ReuseRef(ok)
            THEN /\ Seed(h, h.mapped)
                 /\ Put(s, [h EXCEPT !.ref = h.mapped, !.refFetch = Outcome(ok), !.pc = "intro"])
                 /\ UNCHANGED disputeToRefThread
            ELSE /\ Put(s, [h EXCEPT !.pc = "fetchHub", !.refFetch = Outcome(ok),
                                     !.failed = h.failed \/ (h.mapped \in alive)])
                 /\ UNCHANGED <<maps, closedRefs>>
    /\ UNCHANGED <<platform, eventsLeft, profile, shut>>

\* createRefThreadInDestination: await destGuild.channels.fetch(DEST_REF_HUB_CHANNEL_ID)
FetchHub(s) ==
    LET h == hs[s] IN
    /\ h.kind = "trigger" /\ h.pc = "fetchHub"
    /\ \E ok \in Try(TRUE) :
         /\ Charge(ok, TRUE)
         /\ Put(s, IF ok THEN [h EXCEPT !.pc = "create"] ELSE Throw(h))
    /\ UNCHANGED <<maps, platform, eventsLeft, profile, shut, closedRefs>>

\* the channel the new referee thread is created under
HubOf(originGuild) == DEST_REF_HUB_CHANNEL_ID

\* createRefThreadInDestination: await refHub.threads.create({...})
CreateThread(s) ==
    LET h == hs[s] IN
    /\ h.kind = "trigger" /\ h.pc = "create"
    /\ \E ok \in Try(created < MaxThreads) :
         /\ Charge(ok, created < MaxThreads)
         /\ IF ok
            THEN /\ created' = created + 1
                 /\ alive' = alive \cup {created + 1}
                 /\ threadParent' = [threadParent EXCEPT ![created + 1] = HubOf(h.msg.guild)]
                 /\ threadMembers' = [threadMembers EXCEPT ![created + 1] = {}]
                 /\ threadName' = [threadName EXCEPT ![created + 1] = <<"Dispute", h.msg.author>>]
                 /\ Put(s, [h EXCEPT !.ref = created + 1, !.made = created + 1,
                                     !.pc = "sourceSend"])
                 /\ UNCHANGED <<archived, locked>>
            ELSE /\ Put(s, Throw(h))
                 /\ UNCHANGED platform
    /\ UNCHANGED <<maps, eventsLeft, profile, shut, closedRefs>>

\* try { await thread.send(source link) } catch {}; return thread; then the
\* caller records the mapping and seeds the maps
SourceSend(s) ==
    LET h == hs[s] IN
    /\ h.kind = "trigger" /\ h.pc = "sourceSend"
    /\ \E ok \in Try(h.ref \in alive) :
         /\ Charge(ok, h.ref \in alive)
         /\ Put(s, [h EXCEPT !.pc = "intro", !.failed = h.failed \/ ~ok])
    /\ disputeToRefThread' =
          IF IsThread(h.msg.channel)
          THEN [disputeToRefThread EXCEPT ![h.msg.channel.id] = h.ref]
          ELSE disputeToRefThread
    /\ Seed(h, h.ref)
    /\ UNCHANGED <<platform, eventsLeft, profile, shut>>

IntroSwallows(s) ==
    LET h == hs[s] IN
    /\ h.kind = "trigger" /\ h.pc = "intro"
    /\ \E ok \in Try(h.ref \in alive) :
         /\ Charge(ok, h.ref \in alive)
         /\ Put(s, [h EXCEPT !.pc = "fetchAll", !.failed = h.failed \/ ~ok])
    /\ UNCHANGED <<maps, platform, eventsLeft, profile, shut, closedRefs>>

\* await refThread.send(buildIntro(...))
Intro(s) ==
    LET h == hs[s] IN
    /\ h.kind = "trigger" /\ h.pc = "intro"
    /\ \E ok \in Try(h.ref \in alive) :
         /\ Charge(ok, h.ref \in alive)
         /\ Put(s, IF ok THEN [h EXCEPT !.pc = "fetchAll"] ELSE Throw(h))
    /\ UNCHANGED <<maps, platform, eventsLeft, profile, shut, closedRefs>>

\* ------------------------------------------- referee membership (dest guild)
\* the members of a set in the iteration order of the collection
RECURSIVE Ordered(_, _)
Ordered(set, order) ==
    IF order = <<>> THEN <<>>
    ELSE IF Head(order) \in set THEN <<Head(order)>> \o Ordered(set, Tail(order))
    ELSE Ordered(set, Tail(order))

\* all.filter(m => m.roles.cache.has(REF_ROLE_ID) || m.roles.cache.has(JR_REF_ROLE_ID))
IsRef(m) == HasRole(m, REF_ROLE_ID) \/ HasRole(m, JR_REF_ROLE_ID)
Refs == Ordered({m \in SeqRange(DestMembers) : IsRef(m)}, DestMembers)

\* addAllRefsToThread: const all = await destGuild.members.fetch()
FetchAll(s) ==
    LET h == hs[s] IN
    /\ h.kind = "trigger" /\ h.pc = "fetchAll"
    /\ \E ok \in Try(TRUE) :
         /\ Charge(ok, TRUE)
         /\ Put(s, IF ok THEN [h EXCEPT !.queue = Refs,
                                        !.pc = IF Refs = <<>> THEN "addedSend" ELSE "add"]
                   ELSE Throw(h))
    /\ UNCHANGED <<maps, platform, eventsLeft, profile, shut, closedRefs>>

\* addAllRefsToThread: await thread.members.add(member.id).catch(() => {}); added++
AddRef(s) ==
    LET h == hs[s] IN
    /\ h.kind = "trigger" /\ h.pc = "add"
    /\ \E ok \in Try(h.ref \in alive) :
         /\ Charge(ok, h.ref \in alive)
         /\ threadMembers' = IF ok THEN [threadMembers EXCEPT ![h.ref] = @ \cup {Head(h.queue)}]
                             ELSE threadMembers
         /\ Put(s, [h EXCEPT !.queue = Tail(h.queue), !.added = h.added + 1,
                             !.failed = h.failed \/ ~ok,
                             !.pc = IF Tail(h.queue) = <<>> THEN "addedSend" ELSE "add"])
    /\ UNCHANGED <<maps, created, alive, threadParent, threadName, archived, locked,
                   eventsLeft, profile, shut, closedRefs>>

\* addAllRefsToThread: await thread.send(`Added ${added} referees ...`)
AddedSend(s) ==
    LET h == hs[s] IN
    /\ h.kind = "trigger" /\ h.pc = "addedSend"
    /\ \E ok \in Try(h.ref \in alive) :
         /\ Charge(ok, h.ref \in alive)
         /\ Put(s, IF ok THEN [h EXCEPT !.pc = "tmFetch"] ELSE Throw(h))
    /\ UNCHANGED <<maps, platform, eventsLeft, profile, shut, closedRefs>>

\* removeConflictedFromThread: the loop moves on to the next thread member
NextMember(h) ==
    [h EXCEPT !.queue = Tail(h.queue), !.cur = None,
              !.pc = IF Tail(h.queue) = <<>> THEN "summary" ELSE "gmFetch"]

\* removeConflictedFromThread: await thread.members.fetch().catch(() => {});
\* after a failed fetch the cache holds some part of the membership
TmFetch(s) ==
    LET h == hs[s] IN
    /\ h.kind = "trigger" /\ h.pc = "tmFetch"
    /\ \E ok \in Try(h.ref \in alive) : \E cache \in SUBSET threadMembers[h.ref] :
         /\ ok => cache = threadMembers[h.ref]
         /\ Charge(ok, h.ref \in alive)
         /\ LET q == Ordered(cache, DestMembers) IN
            Put(s, [h EXCEPT !.queue = q, !.cache = cache, !.failed = h.failed \/ ~ok,
                             !.pc = IF q = <<>> THEN "summary" ELSE "gmFetch"])
    /\ UNCHANGED <<maps, platform, eventsLeft, profile, shut, closedRefs>>

\* (countries || []).filter(Boolean) and countryNames.map(bracketCode).filter(Boolean)
CountryNames(h) == {n \in {h.playerCountry.name, h.opponentCountry.name} : n # <<>>}
CountryCodes(h) == {bracketCode(n) : n \in CountryNames(h)} \ {<<>>}

hasConflictByNameOnly(m, countryNames, countryCodes) ==
    \E i \in 1..Len(DestMemberRoles(m)) : DestMemberRoles(m)[i].name \in countryNames

\* gm.roles.cache.some(r => countryNames.includes(r.name) ||
\*                          (bracketCode(r.name) && countryCodes.includes(bracketCode(r.name))))
hasConflict(m, countryNames, countryCodes) ==
    \E i \in 1..Len(DestMemberRoles(m)) :
        LET r == DestMemberRoles(m)[i] IN
        \/ r.name \in countryNames
        \/ (bracketCode(r.name) # <<>> /\ bracketCode(r.name) \in countryCodes)

\* removeConflictedFromThread: const gm = await destGuild.members.fetch(tm.id).catch(() => null)
GmFetch(s) ==
    LET h == hs[s]
        m == Head(h.queue)
    IN
    /\ h.kind = "trigger" /\ h.pc = "gmFetch"
    /\ \E ok \in Try(TRUE) :
         /\ Charge(ok, TRUE)
         /\ IF ~ok THEN Put(s, [NextMember(h) EXCEPT !.failed = TRUE,
                                                      !.examined = h.examined \cup {m}])
            ELSE IF hasConflict(m, CountryNames(h), CountryCodes(h))
            THEN Put(s, [h EXCEPT !.pc = "remove", !.cur = m, !.examined = h.examined \cup {m}])
            ELSE Put(s, [NextMember(h) EXCEPT !.examined = h.examined \cup {m}])
    /\ UNCHANGED <<maps, platform, eventsLeft, profile, shut, closedRefs>>

AfterRemoveRethrows(h, ok) ==
    IF ok THEN [NextMember(h) EXCEPT !.kicked = Append(h.kicked, h.cur)]
    ELSE Throw(h)

\* removeConflictedFromThread: .catch(() => {}) swallows a failed removal, the
\* member is listed as kicked and the loop goes on
AfterRemove(h, ok) ==
    [NextMember(h) EXCEPT !.kicked = Append(h.kicked, h.cur),
                          !.failed = h.failed \/ ~ok,
                          !.rmFailed = h.rmFailed \/ ~ok]

\* removeConflictedFromThread: await thread.members.remove(gm.id).catch(() => {}); kicked.push(..)
Remove(s) ==
    LET h == hs[s] IN
    /\ h.kind = "trigger" /\ h.pc = "remove"
    /\ \E ok \in Try(h.ref \in alive) :
         /\ Charge(ok, h.ref \in alive)
         /\ threadMembers' = IF ok THEN [threadMembers EXCEPT ![h.ref] = @ \ {h.cur}]
                             ELSE threadMembers
         /\ Put(s, AfterRemove(h, ok))
    /\ UNCHANGED <<maps, created, alive, threadParent, threadName, archived, locked,
                   eventsLeft, profile, shut, closedRefs>>

\* removeConflictedFromThread: await thread.send(kicked.length ? 'Auto-removed ...' : 'No conflicted ...')
Summary(s) ==
    LET h == hs[s] IN
    /\ h.kind = "trigger" /\ h.pc = "summary"
    /\ \E ok \in Try(h.ref \in alive) :
         /\ Charge(ok, h.ref \in alive)
         /\ Put(s, IF ok THEN [h EXCEPT !.pc = "dm"] ELSE Throw(h))
    /\ UNCHANGED <<maps, platform, eventsLeft, profile, shut, closedRefs>>

\* dmDisputeRaiser: what follows the outcome of user.send(text)
AfterDm(h, ok) ==
    IF ok THEN [Done(h) EXCEPT !.dm = "ok", !.dms = h.dms + 1]
    ELSE [h EXCEPT !.dm = "fail", !.dms = h.dms + 1, !.failed = TRUE, !.pc = "fallback"]

\* dmDisputeRaiser: try { await user.send(text) } catch { ... }
DmRaiser(s) ==
    LET h == hs[s] IN
    /\ h.kind = "trigger" /\ h.pc = "dm"
    /\ \E ok \in Try(TRUE) :
         /\ Charge(ok, TRUE)
         /\ Put(s, AfterDm(h, ok))
    /\ UNCHANGED <<maps, platform, eventsLeft, profile, shut, closedRefs>>

AfterFallbackRethrows(h, ok) ==
    [(IF ok THEN Done(h) ELSE Throw(h)) EXCEPT !.fallback = Outcome(ok),
                                               !.replies = h.replies + 1]

\* dmDisputeRaiser: what follows the outcome of the fallback message.reply(...)
AfterFallback(h, ok) ==
    [Done(h) EXCEPT !.fallback = Outcome(ok), !.replies = h.replies + 1,
                    !.failed = h.failed \/ ~ok]

\* dmDisputeRaiser: catch { try { await message.reply({...}) } catch {} }
Fallback(s) ==
    LET h == hs[s] IN
    /\ h.kind = "trigger" /\ h.pc = "fallback"
    /\ \E ok \in Try(TRUE) :
         /\ Charge(ok, TRUE)
         /\ Put(s, AfterFallback(h, ok))
    /\ UNCHANGED <<maps, platform, eventsLeft, profile, shut, closedRefs>>

\* ------------------------------------------------------- DM mirror listener
\* try { await message.reply('This dispute is **Closed** ...') } catch {}; return
ClosedReply(s) ==
    LET h == hs[s] IN
    /\ h.kind = "dm" /\ h.pc = "closedReply"
    /\ \E ok \in Try(TRUE) :
         /\ Charge(ok, TRUE)
         /\ Put(s, [Done(h) EXCEPT !.closedReply = Outcome(ok), !.replies = h.replies + 1,
                                   !.failed = h.failed \/ ~ok])
    /\ UNCHANGED <<maps, platform, eventsLeft, profile, shut, closedRefs>>

\* const refThread = await client.channels.fetch(refThreadId).catch(() => null)
DmFetch(s) ==
    LET h == hs[s] IN
    /\ h.kind = "dm" /\ h.pc = "dmFetch"
    /\ \E ok \in Try(h.ref \in alive) :
         /\ Charge(ok, h.ref \in alive)
         /\ Put(s, IF ok THEN [h EXCEPT !.pc = "dmSend"] ELSE Done(h))
    /\ UNCHANGED <<maps, platform, eventsLeft, profile, shut, closedRefs>>

\* await refThread.send(content) / refThread.send({content, files}).catch(...)
DmSend(s) ==
    LET h == hs[s] IN
    /\ h.kind = "dm" /\ h.pc = "dmSend"
    /\ \E ok \in Try(h.ref \in alive) :
         /\ Charge(ok, h.ref \in alive)
         /\ Put(s, IF ok THEN [Done(h) EXCEPT !.fwd = h.ref]
                   ELSE IF h.msg.files THEN [h EXCEPT !.pc = "dmResend"]
                   ELSE Throw(h))
    /\ UNCHANGED <<maps, platform, eventsLeft, profile, shut, closedRefs>>

\* .catch(async () => { await refThread.send(content + '(Attachments present ...)') })
DmResend(s) ==
    LET h == hs[s] IN
    /\ h.kind = "dm" /\ h.pc = "dmResend"
    /\ \E ok \in Try(h.ref \in alive) :
         /\ Charge(ok, h.ref \in alive)
         /\ Put(s, IF ok THEN [Done(h) EXCEPT !.fwd = h.ref] ELSE Throw(h))
    /\ UNCHANGED <<maps, platform, eventsLeft, profile, shut, closedRefs>>

\* ------------------------------------------------------- InteractionCreate
ISSUE_CHOICES == {"Lag", "No Show"}

\* the slash commands that can arrive; thread 0 is a channel that is no thread
Commands ==
    {[NoCmd EXCEPT !.name = "set_players", !.thread = t, !.p1 = a, !.p2 = b] :
        t \in alive \cup {0}, a \in Users, b \in Users}
    \cup
    {[NoCmd EXCEPT !.name = "set_issue", !.thread = t, !.issue = i] :
        t \in alive \cup {0}, i \in ISSUE_CHOICES}
    \cup
    {[NoCmd EXCEPT !.name = "close", !.thread = t] :
        t \in alive \cup {0}}

RouteCommands ==
    {c \in Commands : /\ c.issue \in {None, "Lag"}
                      /\ c.thread = 0 => c.name = "close"}

\* the option values of /vote in the runs, after keys.filter(Boolean)
VoteOpts ==
    {<<"rematch", "invalid">>, <<"rematch", "REMATCH">>, <<"rematch", "bogus">>,
     <<"invalid", "rematch">>, <<"rematch", "REMATCH", "invalid">>,
     <<"penalty", "penalty", "penalty">>}

\* the commands of the command runs
CmdCommands ==
    {c \in Commands : /\ c.issue \in {None, "Lag"}
                      /\ c.name = "set_players" => c.p1 = "u1" /\ c.p2 = "u2" /\ c.thread # 0}
    \cup
    {[NoCmd EXCEPT !.name = "message", !.thread = t, !.target = g] :
        t \in alive \cup {0, ForeignThread}, g \in {"p1", "p2", "both"}}
    \cup
    {[NoCmd EXCEPT !.name = n, !.thread = t, !.channel = c] :
        n \in {"decision", "country_post"}, t \in alive \cup {0, ForeignThread},
        c \in {NoChan, ChanResultsFG, ChanVoiceGF}}
    \cup
    {[NoCmd EXCEPT !.name = "vote", !.thread = t, !.channel = c, !.opts = o] :
        t \in alive \cup {0}, c \in {NoChan, ChanGF}, o \in VoteOpts}

\* the commands of the interleaved runs: /close in a referee thread
RaceCommands == {c \in Commands : c.name = "close" /\ c.thread # 0}

CommandsOf(p) ==
    IF p = "route" THEN RouteCommands ELSE IF p = "cmd" THEN CmdCommands
    ELSE IF p = "race" THEN RaceCommands ELSE Commands

CloseAddsPlayer1Only(meta) == {meta.p1Id} \ {None}

\* /close: if (meta.p1Id) closedPlayers.add(meta.p1Id); if (meta.p2Id) closedPlayers.add(meta.p2Id)
CloseAdds(meta) == {meta.p1Id, meta.p2Id} \ {None}

MapPlayersExclusive(p2r, p1, p2, t) ==
    [u \in Users |-> IF u \in {p1, p2} THEN t ELSE IF p2r[u] = t THEN 0 ELSE p2r[u]]

\* /set_players: playerToRefThread.set(p1.id, ch.id); playerToRefThread.set(p2.id, ch.id)
MapPlayers(p2r, p1, p2, t) == [u \in Users |-> IF u \in {p1, p2} THEN t ELSE p2r[u]]

\* renameThreadByMeta: the first await it reaches, given the metadata
RenameEntry(meta) ==
    IF meta.p1Id # None THEN "fetchP1"
    ELSE IF meta.p2Id # None THEN "fetchP2"
    ELSE "cmdReply"

\* renameThreadByMeta: `${meta.issue} - ${names[0]} vs ${names[1]}`
Title(meta, names) == <<meta.issue, names[1], names[2]>>

WantsRenameWithoutIssue(meta, names, current) ==
    Len(names) = 2 /\ Title(meta, names) # current

\* renameThreadByMeta: whether setName is called once the names are collected
WantsRename(meta, names, current) ==
    meta.issue # None /\ Len(names) = 2 /\ Title(meta, names) # current

\* const meta = refMeta.get(ch.id) || {}
MetaOf(t) == IF t \in Threads THEN refMeta[t] ELSE NoMeta

\* whether a send into the thread the command runs in can succeed
Live(t) == t \in alive \/ t = ForeignThread

\* ---- /message
MessageIdsPlayer2First(target, meta) ==
    (IF target \in {"p2", "both"} /\ meta.p2Id # None THEN <<meta.p2Id>> ELSE <<>>)
    \o (IF target \in {"p1", "both"} /\ meta.p1Id # None THEN <<meta.p1Id>> ELSE <<>>)

\* const ids = []: the targeted player ids that are set, player 1 first
MessageIds(target, meta) ==
    (IF target \in {"p1", "both"} /\ meta.p1Id # None THEN <<meta.p1Id>> ELSE <<>>)
    \o (IF target \in {"p2", "both"} /\ meta.p2Id # None THEN <<meta.p2Id>> ELSE <<>>)

\* if (!ids.length) return interaction.reply('Player(s) not set yet ...')
MessageHead(h, meta) ==
    IF MessageIds(h.cmd.target, meta) = <<>>
    THEN [h EXCEPT !.pc = "cmdReply", !.said = "Player(s) not set yet"]
    ELSE [h EXCEPT !.pc = "msgDm", !.queue = MessageIds(h.cmd.target, meta)]

\* ---- /vote
VOTE_CHOICES == {"rematch", "no_rematch", "invalid", "defwin", "warning", "penalty"}

\* String(k).toLowerCase() on the option values of the runs
LowerKey(k) == IF k = "REMATCH" THEN "rematch" ELSE IF k = "Invalid" THEN "invalid" ELSE k

RECURSIVE VoteItemsWithRepeats(_, _)
VoteItemsWithRepeats(keys, seen) ==
    IF keys = <<>> THEN <<>>
    ELSE LET key == LowerKey(Head(keys)) IN
         IF key \notin VOTE_CHOICES THEN VoteItemsWithRepeats(Tail(keys), seen)
         ELSE <<key>> \o VoteItemsWithRepeats(Tail(keys), seen)

\* for (const k of keys) { if (!VOTE_CHOICES[key] || seen.has(key)) continue; ... }
RECURSIVE VoteItems(_, _)
VoteItems(keys, seen) ==
    IF keys = <<>> THEN <<>>
    ELSE LET key == LowerKey(Head(keys)) IN
         IF key \notin VOTE_CHOICES \/ key \in seen THEN VoteItems(Tail(keys), seen)
         ELSE <<key>> \o VoteItems(Tail(keys), seen \cup {key})

\* the channel a command is run in, as a post target
ThreadChan == NamedChan("thread", "PrivateThread", <<>>)

\* if (items.length < 2) return interaction.reply(...); let target = override || interaction.channel
VoteHead(h) ==
    LET items == VoteItems(h.cmd.opts, {}) IN
    IF Len(items) < 2
    THEN [h EXCEPT !.pc = "cmdReply", !.said = "Pick at least two distinct options."]
    ELSE [h EXCEPT !.pc = "voteSend", !.items = items, !.queue = items,
                   !.target = IF h.cmd.channel # NoChan THEN h.cmd.channel ELSE ThreadChan]

\* ---- /decision and /country_post
\* where the handler goes once the target channel is known
AfterTarget(h, tgt) ==
    IF h.cmd.name = "decision" THEN [h EXCEPT !.target = tgt, !.pc = "decPost"]
    ELSE IF tgt = NoChan \/ tgt.type # "GuildText"
    THEN [h EXCEPT !.target = tgt, !.pc = "cmdReply", !.said = "No suitable country channel found"]
    ELSE [h EXCEPT !.target = tgt, !.pc = "countrySend"]

\* let targetChannel = overrideChan; if (!targetChannel) { const originId = meta.originGuildId; ... }
TargetHead(h, meta) ==
    IF h.cmd.channel # NoChan THEN AfterTarget(h, h.cmd.channel)
    ELSE IF meta.originGuildId # None THEN [h EXCEPT !.pc = "guildFetch"]
    ELSE AfterTarget(h, NoChan)

isThreadAnyChannel(t) == TRUE

\* const isThread = ch && (ch.type === PrivateThread || ch.type === PublicThread);
\* the channel 0 of the commands is a channel that is no thread
isThread(t) == t # 0

\* the synchronous head of the slash-command handler
InteractionCreate(s) ==
    /\ Resting(hs[s])
    /\ eventsLeft > 0
    /\ \E c \in CommandsOf(profile) :
         LET h0 == [Idle EXCEPT !.kind = "cmd", !.cmd = c, !.ref = c.thread]
             t == c.thread
         IN
         IF ~isThread(t)
         THEN /\ Put(s, [h0 EXCEPT !.pc = "notThreadReply"])
              /\ UNCHANGED <<maps, shut, closedRefs>>
         ELSE IF c.name = "set_players"
         THEN /\ refMeta' = [refMeta EXCEPT ![t] = [@ EXCEPT !.set = TRUE, !.p1Id = c.p1, !.p2Id = c.p2]]
              /\ playerToRefThread' = MapPlayers(playerToRefThread, c.p1, c.p2, t)
              /\ Put(s, [h0 EXCEPT !.pc = "fetchP1"])
              /\ closedRefs' = closedRefs \ {t}
              /\ UNCHANGED <<disputeToRefThread, refThreadToPlayer, refThreadToOrigin,
                             closedPlayers, shut>>
         ELSE IF c.name = "set_issue"
         THEN /\ refMeta' = [refMeta EXCEPT ![t] = [@ EXCEPT !.set = TRUE, !.issue = c.issue]]
              /\ Put(s, [h0 EXCEPT !.pc = RenameEntry(MetaOf(t))])
              /\ closedRefs' = closedRefs \ {t}
              /\ UNCHANGED <<disputeToRefThread, playerToRefThread, refThreadToPlayer,
                             refThreadToOrigin, closedPlayers, shut>>
         ELSE IF c.name = "close"
         THEN /\ closedPlayers' = closedPlayers \cup CloseAdds(MetaOf(t))
              /\ shut' = shut \cup ({MetaOf(t).p1Id, MetaOf(t).p2Id} \ {None})
              /\ Put(s, [h0 EXCEPT !.pc =
                    IF t \in Threads /\ refThreadToOrigin[t] # NoOrigin THEN "closeDelete"
                    ELSE IF t \in Threads /\ refThreadToPlayer[t] # None THEN "closeDm"
                    ELSE "closeArchive"])
              /\ UNCHANGED <<disputeToRefThread, playerToRefThread, refThreadToPlayer,
                             refThreadToOrigin, refMeta, closedRefs>>
         ELSE /\ Put(s, IF c.name = "message" THEN MessageHead(h0, MetaOf(t))
                        ELSE IF c.name = "vote" THEN VoteHead(h0)
                        ELSE TargetHead(h0, MetaOf(t)))
              /\ UNCHANGED <<maps, shut, closedRefs>>
    /\ eventsLeft' = eventsLeft - 1
    /\ UNCHANGED <<platform, faultsLeft, profile>>

\* return interaction.reply({ephemeral: true, content: 'Use this inside a **Dispute Thread**.'})
NotThreadReply(s) ==
    LET h == hs[s] IN
    /\ h.kind = "cmd" /\ h.pc = "notThreadReply"
    /\ \E ok \in Try(TRUE) :
         /\ Charge(ok, TRUE)
         /\ Put(s, [(IF ok THEN Done(h) ELSE Throw(h))
                      EXCEPT !.cmdReply = Outcome(ok),
                             !.said = "Use this inside a **Dispute Thread**."])
    /\ UNCHANGED <<maps, platform, eventsLeft, profile, shut, closedRefs>>

\* renameThreadByMeta: where it goes once names holds the collected names
AfterNames(h, names) ==
    [h EXCEPT !.names = names,
              !.pc = IF WantsRename(refMeta[h.ref], names, threadName[h.ref])
                     THEN "setName" ELSE "cmdReply"]

\* renameThreadByMeta: u1 = await thread.guild.members.fetch(meta.p1Id).catch(() => null)
FetchP1(s) ==
    LET h == hs[s] IN
    /\ h.kind = "cmd" /\ h.pc = "fetchP1"
    /\ \E ok \in Try(TRUE) :
         /\ Charge(ok, TRUE)
         /\ LET names == <<IF ok THEN refMeta[h.ref].p1Id ELSE "Player1">> IN
            Put(s, IF refMeta[h.ref].p2Id # None
                   THEN [h EXCEPT !.names = names, !.pc = "fetchP2", !.failed = h.failed \/ ~ok]
                   ELSE [AfterNames(h, names) EXCEPT !.failed = h.failed \/ ~ok])
    /\ UNCHANGED <<maps, platform, eventsLeft, profile, shut, closedRefs>>

\* renameThreadByMeta: u2 = await thread.guild.members.fetch(meta.p2Id).catch(() => null)
FetchP2(s) ==
    LET h == hs[s] IN
    /\ h.kind = "cmd" /\ h.pc = "fetchP2"
    /\ \E ok \in Try(TRUE) :
         /\ Charge(ok, TRUE)
         /\ LET names == Append(h.names, IF ok THEN refMeta[h.ref].p2Id ELSE "Player2") IN
            Put(s, [AfterNames(h, names) EXCEPT !.failed = h.failed \/ ~ok])
    /\ UNCHANGED <<maps, platform, eventsLeft, profile, shut, closedRefs>>

\* renameThreadByMeta: await thread.setName(title).catch(() => {})
SetName(s) ==
    LET h == hs[s] IN
    /\ h.kind = "cmd" /\ h.pc = "setName"
    /\ \E ok \in Try(h.ref \in alive) :
         /\ Charge(ok, h.ref \in alive)
         /\ threadName' = IF ok THEN [threadName EXCEPT ![h.ref] = Title(refMeta[h.ref], h.names)]
                          ELSE threadName
         /\ Put(s, [h EXCEPT !.pc = "cmdReply", !.failed = h.failed \/ ~ok])
    /\ UNCHANGED <<maps, created, alive, threadParent, threadMembers, archived, locked,
                   eventsLeft, profile, shut, closedRefs>>

\* return interaction.reply({content: 'Players set: ...' / 'Issue set to ...'})
CmdReply(s) ==
    LET h == hs[s] IN
    /\ h.kind = "cmd" /\ h.pc = "cmdReply"
    /\ \E ok \in Try(TRUE) :
         /\ Charge(ok, TRUE)
         /\ Put(s, [(IF ok THEN Done(h) ELSE Throw(h)) EXCEPT !.cmdReply = Outcome(ok)])
    /\ UNCHANGED <<maps, platform, eventsLeft, profile, shut, closedRefs>>

\* /message: try { const u = await users.fetch(uid); await u.send(text); results.push(ok) }
\* catch { results.push(failed) }, once per id
MsgDm(s) ==
    LET h == hs[s] IN
    /\ h.kind = "cmd" /\ h.pc = "msgDm"
    /\ \E ok \in Try(TRUE) :
         /\ Charge(ok, TRUE)
         /\ Put(s, [h EXCEPT !.marks = Append(h.marks, <<Head(h.queue), ok>>),
                             !.dms = h.dms + 1,
                             !.queue = Tail(h.queue),
                             !.pc = IF Tail(h.queue) = <<>> THEN "msgEcho" ELSE "msgDm"])
    /\ UNCHANGED <<maps, platform, eventsLeft, profile, shut, closedRefs>>

\* /message: await ch.send(echo + results); return interaction.reply('Sent.')
MsgEcho(s) ==
    LET h == hs[s] IN
    /\ h.kind = "cmd" /\ h.pc = "msgEcho"
    /\ \E ok \in Try(Live(h.ref)) :
         /\ Charge(ok, Live(h.ref))
         /\ Put(s, IF ok THEN [h EXCEPT !.echo = "ok", !.posts = h.posts + 1,
                                        !.pc = "cmdReply", !.said = "Sent."]
                    ELSE [Throw(h) EXCEPT !.echo = "fail"])
    /\ UNCHANGED <<maps, platform, eventsLeft, profile, shut, closedRefs>>

\* the channel cache of an origin guild once it is fetched (platform data)
OriginChannels(g) == IF g = GYM_GUILD_ID THEN <<ChanGF, ChanPostGF>> ELSE <<ChanF>>

\* originGuild = await client.guilds.fetch(originId).catch(() => null)
GuildFetch(s) ==
    LET h == hs[s] IN
    /\ h.kind = "cmd" /\ h.pc = "guildFetch"
    /\ \E ok \in Try(TRUE) :
         /\ Charge(ok, TRUE)
         /\ Put(s, IF ok THEN [h EXCEPT !.pc = "chanFetch"] ELSE AfterTarget(h, NoChan))
    /\ UNCHANGED <<maps, platform, eventsLeft, profile, shut, closedRefs>>

\* await originGuild.channels.fetch(); target = findDecisionChannel(originGuild, ...)
ChanFetch(s) ==
    LET h == hs[s]
        meta == MetaOf(h.ref)
        g == Guild(OriginChannels(meta.originGuildId))
    IN
    /\ h.kind = "cmd" /\ h.pc = "chanFetch"
    /\ \E ok \in Try(TRUE) :
         /\ Charge(ok, TRUE)
         /\ Put(s, IF ok
                    THEN AfterTarget([h EXCEPT !.guild = g],
                             findDecisionChannel(g, meta.playerCountry.name,
                                                 meta.opponentCountry.name))
                    ELSE Throw(h))
    /\ UNCHANGED <<maps, platform, eventsLeft, profile, shut, closedRefs>>

\* /decision: the channel the ruling is sent to
DecisionTarget(target) ==
    IF target # NoChan /\ target.type = "GuildText" THEN target ELSE ThreadChan

\* whether a send to a post target can succeed
Sendable(chan, t) == chan = ThreadChan => Live(t)

\* /decision: await targetChannel.send(text) or await ch.send(text)
DecPost(s) ==
    LET h == hs[s]
        to == DecisionTarget(h.target)
    IN
    /\ h.kind = "cmd" /\ h.pc = "decPost"
    /\ \E ok \in Try(Sendable(to, h.ref)) :
         /\ Charge(ok, Sendable(to, h.ref))
         /\ Put(s, IF ~ok THEN [h EXCEPT !.pc = "failReply", !.failed = TRUE]
                    ELSE [h EXCEPT !.posted = to, !.posts = h.posts + 1,
                                   !.pc = IF to = ThreadChan THEN "cmdReply" ELSE "decNotice",
                                   !.said = IF to = ThreadChan THEN "Decision posted." ELSE None])
    /\ UNCHANGED <<maps, platform, eventsLeft, profile, shut, closedRefs>>

\* /decision: await ch.send('Decision posted to <#target>')
DecNotice(s) ==
    LET h == hs[s] IN
    /\ h.kind = "cmd" /\ h.pc = "decNotice"
    /\ \E ok \in Try(Live(h.ref)) :
         /\ Charge(ok, Live(h.ref))
         /\ Put(s, IF ok THEN [h EXCEPT !.notice = "ok", !.pc = "cmdReply",
                                        !.said = "Decision posted."]
                    ELSE [h EXCEPT !.notice = "fail", !.pc = "failReply", !.failed = TRUE])
    /\ UNCHANGED <<maps, platform, eventsLeft, profile, shut, closedRefs>>

\* the catch of /decision, /vote and /country_post: interaction.reply('Failed to post ...')
FailReply(s) ==
    LET h == hs[s] IN
    /\ h.kind = "cmd" /\ h.pc = "failReply"
    /\ \E ok \in Try(TRUE) :
         /\ Charge(ok, TRUE)
         /\ Put(s, [(IF ok THEN Done(h) ELSE Throw(h))
                      EXCEPT !.cmdReply = Outcome(ok), !.said = "Failed to post"])
    /\ UNCHANGED <<maps, platform, eventsLeft, profile, shut, closedRefs>>

\* /country_post: try { await target.send(text)
CountrySend(s) ==
    LET h == hs[s] IN
    /\ h.kind = "cmd" /\ h.pc = "countrySend"
    /\ \E ok \in Try(TRUE) :
         /\ Charge(ok, TRUE)
         /\ Put(s, IF ok THEN [h EXCEPT !.posted = h.target, !.posts = h.posts + 1,
                                        !.pc = "countryReply"]
                    ELSE [h EXCEPT !.pc = "failReply", !.failed = TRUE])
    /\ UNCHANGED <<maps, platform, eventsLeft, profile, shut, closedRefs>>

\* /country_post: await interaction.reply('Posted to <#target>') } catch { ... }
CountryReply(s) ==
    LET h == hs[s] IN
    /\ h.kind = "cmd" /\ h.pc = "countryReply"
    /\ \E ok \in Try(TRUE) :
         /\ Charge(ok, TRUE)
         /\ Put(s, IF ok THEN [Done(h) EXCEPT !.cmdReply = "ok", !.said = "Posted"]
                    ELSE [h EXCEPT !.pc = "failReply", !.failed = TRUE])
    /\ UNCHANGED <<maps, platform, eventsLeft, profile, shut, closedRefs>>

\* /vote: const msg = await target.send(title + lines)
VoteSend(s) ==
    LET h == hs[s] IN
    /\ h.kind = "cmd" /\ h.pc = "voteSend"
    /\ \E ok \in Try(Sendable(h.target, h.ref)) :
         /\ Charge(ok, Sendable(h.target, h.ref))
         /\ Put(s, IF ok THEN [h EXCEPT !.posted = h.target, !.posts = h.posts + 1,
                                        !.pc = "voteReact"]
                    ELSE [h EXCEPT !.pc = "failReply", !.failed = TRUE])
    /\ UNCHANGED <<maps, platform, eventsLeft, profile, shut, closedRefs>>

\* /vote: for (const it of items) await msg.react(it.emoji).catch(() => {})
VoteReact(s) ==
    LET h == hs[s] IN
    /\ h.kind = "cmd" /\ h.pc = "voteReact"
    /\ \E ok \in Try(TRUE) :
         /\ Charge(ok, TRUE)
         /\ Put(s, [h EXCEPT !.reacts = Append(h.reacts, <<Head(h.queue), ok>>),
                             !.queue = Tail(h.queue),
                             !.failed = h.failed \/ ~ok,
                             !.pc = IF Tail(h.queue) = <<>> THEN "cmdReply" ELSE "voteReact",
                             !.said = IF Tail(h.queue) = <<>> THEN "Vote created." ELSE None])
    /\ UNCHANGED <<maps, platform, eventsLeft, profile, shut, closedRefs>>

\* /close: fetch the origin guild, channel and trigger message and delete it (each caught)
CloseDelete(s) ==
    LET h == hs[s] IN
    /\ h.kind = "cmd" /\ h.pc = "closeDelete"
    /\ \E ok \in Try(TRUE) :
         /\ Charge(ok, TRUE)
         /\ Put(s, [h EXCEPT !.failed = h.failed \/ ~ok,
                             !.pc = IF refThreadToPlayer[h.ref] # None THEN "closeDm"
                                    ELSE "closeArchive"])
    /\ UNCHANGED <<maps, platform, eventsLeft, profile, shut, closedRefs>>

\* /close: try { u = await users.fetch(raiserId); await u.send('Your dispute has been Closed ...') } catch {}
CloseDm(s) ==
    LET h == hs[s] IN
    /\ h.kind = "cmd" /\ h.pc = "closeDm"
    /\ \E ok \in Try(TRUE) :
         /\ Charge(ok, TRUE)
         /\ Put(s, [h EXCEPT !.dm = Outcome(ok), !.dms = h.dms + 1,
                             !.failed = h.failed \/ ~ok, !.pc = "closeArchive"])
    /\ UNCHANGED <<maps, platform, eventsLeft, profile, shut, closedRefs>>

\* /close: await ch.setArchived(true).catch(() => {})
CloseArchive(s) ==
    LET h == hs[s] IN
    /\ h.kind = "cmd" /\ h.pc = "closeArchive"
    /\ \E ok \in Try(h.ref \in alive) :
         /\ Charge(ok, h.ref \in alive)
         /\ archived' = IF ok THEN archived \cup {h.ref} ELSE archived
         /\ Put(s, [h EXCEPT !.failed = h.failed \/ ~ok, !.pc = "closeLock"])
    /\ UNCHANGED <<maps, created, alive, threadParent, threadMembers, threadName, locked,
                   eventsLeft, profile, shut, closedRefs>>

\* /close: await ch.setLocked(true).catch(() => {})
CloseLock(s) ==
    LET h == hs[s] IN
    /\ h.kind = "cmd" /\ h.pc = "closeLock"
    /\ \E ok \in Try(h.ref \in alive) :
         /\ Charge(ok, h.ref \in alive)
         /\ locked' = IF ok THEN locked \cup {h.ref} ELSE locked
         /\ Put(s, [h EXCEPT !.failed = h.failed \/ ~ok, !.pc = "closeReply"])
    /\ UNCHANGED <<maps, created, alive, threadParent, threadMembers, threadName, archived,
                   eventsLeft, profile, shut, closedRefs>>

\* /close: return interaction.reply('Dispute closed (archived & locked).'): the
\* promise is returned, not awaited, so its rejection passes the catch of the
\* try it is in (every await of that try has its own catch, so the catch with
\* 'Failed to close this thread.' is never entered)
CloseReply(s) ==
    LET h == hs[s] IN
    /\ h.kind = "cmd" /\ h.pc = "closeReply"
    /\ \E ok \in Try(TRUE) :
         /\ Charge(ok, TRUE)
         /\ Put(s, [(IF ok THEN Done(h) ELSE Throw(h)) EXCEPT !.cmdReply = Outcome(ok)])
    /\ closedRefs' = closedRefs \cup {h.ref}
    /\ UNCHANGED <<maps, platform, eventsLeft, profile, shut>>

\* ---------------------------------------------------------------- platform
\* a referee thread is deleted on the platform, outside the bot
DeleteThread ==
    /\ Quiet
    /\ faultsLeft > 0
    /\ \E t \in alive : alive' = alive \ {t}
    /\ faultsLeft' = faultsLeft - 1
    /\ UNCHANGED <<maps, created, threadParent, threadMembers, threadName, archived, locked,
                   hs, eventsLeft, profile, shut, closedRefs>>

\* ----------------------------------------------------------- specification
\* events are handled one after another: a new event is dispatched when no
\* handler is between two awaits
Next ==
    \/ \E s \in Slots : Quiet /\ MessageCreate(s)
    \/ \E s \in Slots : Quiet /\ InteractionCreate(s)
    \/ \E s \in Slots : FetchMember(s)
    \/ \E s \in Slots : ReplyNoOpp(s)
    \/ \E s \in Slots : FetchDest(s)
    \/ \E s \in Slots : FetchRef(s)
    \/ \E s \in Slots : FetchHub(s)
    \/ \E s \in Slots : CreateThread(s)
    \/ \E s \in Slots : SourceSend(s)
    \/ \E s \in Slots : Intro(s)
    \/ \E s \in Slots : FetchAll(s)
    \/ \E s \in Slots : AddRef(s)
    \/ \E s \in Slots : AddedSend(s)
    \/ \E s \in Slots : TmFetch(s)
    \/ \E s \in Slots : GmFetch(s)
    \/ \E s \in Slots : Remove(s)
    \/ \E s \in Slots : Summary(s)
    \/ \E s \in Slots : DmRaiser(s)
    \/ \E s \in Slots : Fallback(s)
    \/ \E s \in Slots : ClosedReply(s)
    \/ \E s \in Slots : DmFetch(s)
    \/ \E s \in Slots : DmSend(s)
    \/ \E s \in Slots : DmResend(s)
    \/ \E s \in Slots : NotThreadReply(s)
    \/ \E s \in Slots : FetchP1(s)
    \/ \E s \in Slots : FetchP2(s)
    \/ \E s \in Slots : SetName(s)
    \/ \E s \in Slots : CmdReply(s)
    \/ \E s \in Slots : CloseDelete(s)
    \/ \E s \in Slots : CloseDm(s)
    \/ \E s \in Slots : CloseArchive(s)
    \/ \E s \in Slots : CloseLock(s)
    \/ \E s \in Slots : CloseReply(s)
    \/ DeleteThread

\* ------------------------------------------------ interleaved handlers
\* client.on(...) listeners are async functions: an event that arrives while a
\* handler waits at an await starts its own handler, and the two then advance
\* in any order, one await at a time.  An event takes the lowest free handler.
RaceSlots == {1, 2}

FreeSlot(s) == \A r \in RaceSlots : r < s => ~Resting(hs[r])

InitRace ==
    /\ InitBase
    /\ hs = [s \in RaceSlots |-> Idle]
    /\ eventsLeft = MaxRaceEvents /\ faultsLeft = MaxRaceFaults /\ profile = "race"

NextRace ==
    \/ \E s \in RaceSlots : FreeSlot(s) /\ MessageCreate(s)
    \/ \E s \in RaceSlots : FreeSlot(s) /\ InteractionCreate(s)
    \/ \E s \in RaceSlots : FetchMember(s)
    \/ \E s \in RaceSlots : ReplyNoOpp(s)
    \/ \E s \in RaceSlots : FetchDest(s)
    \/ \E s \in RaceSlots : FetchRef(s)
    \/ \E s \in RaceSlots : FetchHub(s)
    \/ \E s \in RaceSlots : CreateThread(s)
    \/ \E s \in RaceSlots : SourceSend(s)
    \/ \E s \in RaceSlots : Intro(s)
    \/ \E s \in RaceSlots : FetchAll(s)
    \/ \E s \in RaceSlots : AddRef(s)
    \/ \E s \in RaceSlots : AddedSend(s)
    \/ \E s \in RaceSlots : TmFetch(s)
    \/ \E s \in RaceSlots : GmFetch(s)
    \/ \E s \in RaceSlots : Remove(s)
    \/ \E s \in RaceSlots : Summary(s)
    \/ \E s \in RaceSlots : DmRaiser(s)
    \/ \E s \in RaceSlots : Fallback(s)
    \/ \E s \in RaceSlots : ClosedReply(s)
    \/ \E s \in RaceSlots : DmFetch(s)
    \/ \E s \in RaceSlots : DmSend(s)
    \/ \E s \in RaceSlots : DmResend(s)
    \/ \E s \in RaceSlots : CloseDelete(s)
    \/ \E s \in RaceSlots : CloseDm(s)
    \/ \E s \in RaceSlots : CloseArchive(s)
    \/ \E s \in RaceSlots : CloseLock(s)
    \/ \E s \in RaceSlots : CloseReply(s)

SpecRace == InitRace /\ [][NextRace]_vars

\* --------------------------------------------- findDecisionChannel alone
\* one call of findDecisionChannel(guild, countryA, countryB) with its arguments
FindCall(g, a, b) ==
    [Idle EXCEPT !.kind = "find", !.pc = "find", !.guild = g,
                 !.playerCountry = [id |-> None, name |-> a],
                 !.opponentCountry = [id |-> None, name |-> b]]

InitFind ==
    /\ InitBase
    /\ eventsLeft = 0 /\ faultsLeft = 0 /\ profile = "find"
    /\ hs \in [Slots -> {FindCall(g, a, b) :
                            g \in {NoGuild} \cup {Guild(c) : c \in GuildCaches},
                            a \in CountryArgs, b \in CountryArgs}]

ApplyFind(s) ==
    LET h == hs[s] IN
    /\ h.kind = "find" /\ h.pc = "find"
    /\ Put(s, [Done(h) EXCEPT !.target =
             findDecisionChannel(h.guild, h.playerCountry.name, h.opponentCountry.name)])
    /\ UNCHANGED <<maps, platform, eventsLeft, faultsLeft, profile, shut, closedRefs>>

NextFind == \E s \in Slots : ApplyFind(s)

SpecFind == InitFind /\ [][NextFind]_vars

\* ------------------------------------------------ the posting commands
InitCmd ==
    InitMaps /\ eventsLeft = MaxCmdEvents /\ faultsLeft = MaxCmdFaults /\ profile = "cmd"

NextCmd ==
    \/ Next
    \/ \E s \in Slots : MsgDm(s)
    \/ \E s \in Slots : MsgEcho(s)
    \/ \E s \in Slots : GuildFetch(s)
    \/ \E s \in Slots : ChanFetch(s)
    \/ \E s \in Slots : DecPost(s)
    \/ \E s \in Slots : DecNotice(s)
    \/ \E s \in Slots : FailReply(s)
    \/ \E s \in Slots : CountrySend(s)
    \/ \E s \in Slots : CountryReply(s)
    \/ \E s \in Slots : VoteSend(s)
    \/ \E s \in Slots : VoteReact(s)

\* the posting commands over disputes of both origins
SpecCmd == InitCmd /\ [][NextCmd]_vars

\* ------------------------------------------- the version with /reopen
\* (bot.js 2136-2735: one guild, /close and /reopen on the thread's player)
DISPUTE_CHANNEL_ID == GYM_DISPUTE_CHANNEL_ID
TRIGGER_ROLE_ID == REF_ROLE_ID

ReopenMessages ==
    {Msg(GYM_GUILD_ID, a, c, <<RoleRef>>, {}, FALSE) : a \in Users, c \in {GymChan, GymThread}}
    \cup
    {Msg(GYM_GUILD_ID, "u1", GymChan, <<RoleF>>, {}, FALSE)}
    \cup
    {Msg(None, a, DmChan, <<>>, {}, f) : a \in Users, f \in BOOLEAN}

ReopenCommands ==
    {[NoCmd EXCEPT !.name = n, !.thread = t] :
        n \in {"close", "reopen"}, t \in alive \cup {0, ForeignThread}}

\* the synchronous checks of this version's trigger listener
inDispute(m) ==
    /\ m.guild # None /\ m.author # BotUser
    /\ \/ m.channel.id = DISPUTE_CHANNEL_ID
       \/ m.channel.parentId = DISPUTE_CHANNEL_ID
    /\ messageMentionsRole(m, TRIGGER_ROLE_ID)

\* the trigger listener and the DM mirror see the message; one of them goes on
ReopenMessageCreate(s) ==
    /\ Resting(hs[s])
    /\ eventsLeft > 0
    /\ \E m \in ReopenMessages :
         LET h0 == [Idle EXCEPT !.msg = m]
             route == DmRoute(m, playerToRefThread, closedPlayers)
             existing == IF IsThread(m.channel) THEN disputeToRefThread[m.channel.id] ELSE 0
         IN
         /\ IF inDispute(m)
            THEN Put(s, [h0 EXCEPT !.kind = "trigger", !.mapped = existing,
                                   !.pc = IF existing # 0 THEN "fetchExisting"
                                          ELSE "createRefThread"])
            ELSE IF route = "closed"
            THEN Put(s, [h0 EXCEPT !.kind = "dm", !.pc = "blockedReply",
                                   !.ref = DmTarget(playerToRefThread, m.author)])
            ELSE IF route = "forward"
            THEN Put(s, [h0 EXCEPT !.kind = "dm", !.pc = "dmFetch",
                                   !.ref = DmTarget(playerToRefThread, m.author)])
            ELSE Put(s, [h0 EXCEPT !.kind = IF m.guild = None THEN "dm" ELSE "trigger",
                                   !.pc = "done"])
         /\ shut' = IF inDispute(m) THEN shut \ {m.author} ELSE shut
    /\ eventsLeft' = eventsLeft - 1
    /\ UNCHANGED <<maps, platform, faultsLeft, profile, closedRefs>>

\* refThread = await message.guild.channels.fetch(existingRefThreadId).catch(() => null)
FetchExisting(s) ==
    LET h == hs[s] IN
    /\ h.kind = "trigger" /\ h.pc = "fetchExisting"
    /\ \E ok \in Try(h.mapped \in alive) :
         /\ Charge(ok, h.mapped \in alive)
         /\ Put(s, IF ok THEN [h EXCEPT !.ref = h.mapped, !.refFetch = "ok", !.pc = "context"]
                    ELSE [h EXCEPT !.refFetch = "fail", !.pc = "createRefThread"])
    /\ UNCHANGED <<maps, platform, eventsLeft, profile, shut, closedRefs>>

\* createRefThread: refHub = await guild.channels.fetch(REF_HUB_CHANNEL_ID);
\* thread = await refHub.threads.create({...})
createRefThread(s) ==
    LET h == hs[s] IN
    /\ h.kind = "trigger" /\ h.pc = "createRefThread"
    /\ \E ok \in Try(created < MaxThreads) :
         /\ Charge(ok, created < MaxThreads)
         /\ IF ok
            THEN /\ created' = created + 1
                 /\ alive' = alive \cup {created + 1}
                 /\ threadParent' = [threadParent EXCEPT ![created + 1] = DEST_REF_HUB_CHANNEL_ID]
                 /\ threadMembers' = [threadMembers EXCEPT ![created + 1] = {}]
                 /\ threadName' = [threadName EXCEPT ![created + 1] = <<"Dispute", h.msg.author>>]
                 /\ Put(s, [h EXCEPT !.ref = created + 1, !.made = created + 1,
                                     !.pc = "threadLink"])
                 /\ UNCHANGED <<archived, locked>>
            ELSE /\ Put(s, Throw(h))
                 /\ UNCHANGED platform
    /\ UNCHANGED <<maps, eventsLeft, profile, shut, closedRefs>>

\* createRefThread: await thread.send(link); return thread; then
\* if (disputeThread) disputeToRefThread.set(disputeThread.id, refThread.id)
ThreadLink(s) ==
    LET h == hs[s] IN
    /\ h.kind = "trigger" /\ h.pc = "threadLink"
    /\ \E ok \in Try(h.ref \in alive) :
         /\ Charge(ok, h.ref \in alive)
         /\ Put(s, IF ok THEN [h EXCEPT !.pc = "removeConflictedRefs"] ELSE Throw(h))
         /\ disputeToRefThread' =
               IF ok /\ IsThread(h.msg.channel)
               THEN [disputeToRefThread EXCEPT ![h.msg.channel.id] = h.ref]
               ELSE disputeToRefThread
    /\ UNCHANGED <<playerToRefThread, refThreadToPlayer, refThreadToOrigin, closedPlayers,
                   refMeta, platform, eventsLeft, profile, shut, closedRefs>>

\* the decision-channel notice and removeConflictedRefs: sends and fetches with
\* no catch of their own; they write no map (the members of the thread are not
\* followed in this version's runs)
removeConflictedRefs(s) ==
    LET h == hs[s] IN
    /\ h.kind = "trigger" /\ h.pc = "removeConflictedRefs"
    /\ \E ok \in Try(h.ref \in alive) :
         /\ Charge(ok, h.ref \in alive)
         /\ Put(s, IF ok THEN [h EXCEPT !.pc = "context"] ELSE Throw(h))
    /\ UNCHANGED <<maps, platform, eventsLeft, profile, shut, closedRefs>>

\* playerToRefThread.set(author, refThread.id); refThreadToPlayer.set(refThread.id, author);
\* closedPlayers.delete(author)
MapPlayer(h) ==
    /\ playerToRefThread' = [playerToRefThread EXCEPT ![h.msg.author] = h.ref]
    /\ refThreadToPlayer' = [refThreadToPlayer EXCEPT ![h.ref] = h.msg.author]
    /\ closedPlayers' = closedPlayers \ {h.msg.author}

\* await refThread.send('New dispute raised by ...'), then the player is mapped
Context(s) ==
    LET h == hs[s] IN
    /\ h.kind = "trigger" /\ h.pc = "context"
    /\ \E ok \in Try(h.ref \in alive) :
         /\ Charge(ok, h.ref \in alive)
         /\ IF ok
            THEN /\ MapPlayer(h)
                 /\ Put(s, [h EXCEPT !.pc = "dm"])
            ELSE /\ Put(s, Throw(h))
                 /\ UNCHANGED <<playerToRefThread, refThreadToPlayer, closedPlayers>>
    /\ UNCHANGED <<disputeToRefThread, refThreadToOrigin, refMeta, platform, eventsLeft,
                   profile, shut, closedRefs>>

\* try { await message.reply('This dispute is **Closed**. ...') } catch {}
BlockedReply(s) ==
    LET h == hs[s] IN
    /\ h.kind = "dm" /\ h.pc = "blockedReply"
    /\ \E ok \in Try(TRUE) :
         /\ Charge(ok, TRUE)
         /\ Put(s, [h EXCEPT !.closedReply = Outcome(ok), !.replies = h.replies + 1,
                             !.failed = h.failed \/ ~ok, !.pc = "blockedNotice"])
    /\ UNCHANGED <<maps, platform, eventsLeft, profile, shut, closedRefs>>

\* const t = await client.channels.fetch(refThreadId).catch(() => null);
\* await t?.send('Blocked DM from ... because this dispute is **Closed**.')
BlockedNotice(s) ==
    LET h == hs[s] IN
    /\ h.kind = "dm" /\ h.pc = "blockedNotice"
    /\ \E ok \in Try(h.ref \in alive) :
         /\ Charge(ok, h.ref \in alive)
         /\ Put(s, IF ok THEN [Done(h) EXCEPT !.notice = "ok", !.posts = h.posts + 1]
                    ELSE [Done(h) EXCEPT !.notice = "fail", !.failed = TRUE])
    /\ UNCHANGED <<maps, platform, eventsLeft, profile, shut, closedRefs>>

\* getPlayerFromCurrentThread: refThreadToPlayer.get(ch.id) || the first user
\* mapped to the thread || null (thread 0 is no thread)
getPlayerFromCurrentThread(t) ==
    IF t \notin Threads THEN None
    ELSE IF refThreadToPlayer[t] # None THEN refThreadToPlayer[t]
    ELSE IF \E u \in Users : playerToRefThread[u] = t
    THEN CHOOSE u \in Users : playerToRefThread[u] = t
    ELSE None

\* closedPlayers.add(userId)
closeAdd(closed, userId) == closed \cup {userId}

reopenKeeps(closed, userId) == closed

\* closedPlayers.delete(userId)
reopenDelete(closed, userId) == closed \ {userId}

\* /close and /reopen up to their first await
ReopenInteractionCreate(s) ==
    /\ Resting(hs[s])
    /\ eventsLeft > 0
    /\ \E c \in ReopenCommands :
         LET userId == getPlayerFromCurrentThread(c.thread)
             h0 == [Idle EXCEPT !.kind = "cmd", !.cmd = c, !.ref = c.thread, !.cur = userId,
                                !.before = closedPlayers]
         IN
         IF userId = None
         THEN /\ Put(s, [h0 EXCEPT !.pc = "cmdReply",
                                   !.said = "Could not resolve the dispute's player"])
              /\ UNCHANGED <<closedPlayers, shut>>
         ELSE /\ closedPlayers' = IF c.name = "close" THEN closeAdd(closedPlayers, userId)
                                  ELSE reopenDelete(closedPlayers, userId)
              /\ shut' = IF c.name = "close" THEN shut \cup {userId} ELSE shut
              /\ Put(s, [h0 EXCEPT !.pc = "markReply"])
    /\ eventsLeft' = eventsLeft - 1
    /\ UNCHANGED <<disputeToRefThread, playerToRefThread, refThreadToPlayer, refThreadToOrigin,
                   refMeta, platform, faultsLeft, profile, closedRefs>>

\* await interaction.reply('Marked dispute as **Closed** / **Open** ...')
MarkReply(s) ==
    LET h == hs[s] IN
    /\ h.kind = "cmd" /\ h.pc = "markReply"
    /\ \E ok \in Try(TRUE) :
         /\ Charge(ok, TRUE)
         /\ Put(s, IF ok THEN [h EXCEPT !.cmdReply = "ok", !.pc = "announce"]
                    ELSE [Throw(h) EXCEPT !.cmdReply = "fail"])
    /\ UNCHANGED <<maps, platform, eventsLeft, profile, shut, closedRefs>>

\* try { await interaction.channel.send('This dispute is now **Closed** / **Reopened** ...') } catch {}
Announce(s) ==
    LET h == hs[s] IN
    /\ h.kind = "cmd" /\ h.pc = "announce"
    /\ \E ok \in Try(h.ref \in alive) :
         /\ Charge(ok, h.ref \in alive)
         /\ Put(s, [Done(h) EXCEPT !.posts = IF ok THEN h.posts + 1 ELSE h.posts,
                                   !.failed = h.failed \/ ~ok])
    /\ UNCHANGED <<maps, platform, eventsLeft, profile, shut, closedRefs>>

InitReopen ==
    InitMaps /\ eventsLeft = MaxReopenEvents /\ faultsLeft = MaxReopenFaults
             /\ profile = "reopen"

NextReopen ==
    \/ \E s \in Slots : Quiet /\ ReopenMessageCreate(s)
    \/ \E s \in Slots : Quiet /\ ReopenInteractionCreate(s)
    \/ \E s \in Slots : FetchExisting(s)
    \/ \E s \in Slots : createRefThread(s)
    \/ \E s \in Slots : ThreadLink(s)
    \/ \E s \in Slots : removeConflictedRefs(s)
    \/ \E s \in Slots : Context(s)
    \/ \E s \in Slots : DmRaiser(s)
    \/ \E s \in Slots : Fallback(s)
    \/ \E s \in Slots : BlockedReply(s)
    \/ \E s \in Slots : BlockedNotice(s)
    \/ \E s \in Slots : DmFetch(s)
    \/ \E s \in Slots : DmSend(s)
    \/ \E s \in Slots : DmResend(s)
    \/ \E s \in Slots : CmdReply(s)
    \/ \E s \in Slots : MarkReply(s)
    \/ \E s \in Slots : Announce(s)
    \/ DeleteThread

\* the version with /reopen: triggers, direct messages, /close and /reopen
SpecReopen == InitReopen /\ [][NextReopen]_vars

\* every kind of message, short runs
Spec == Init /\ [][Next]_vars

\* few kinds of message, long runs
SpecRoute == InitRoute /\ [][Next]_vars

\* ------------------------------------------------------------------ claims
IsDirect(m) == m.guild = None /\ m.author \in Users /\ m.channel.type = "DM"

C2_NoForwardIntoClosedThread ==
    \A s \in Slots :
        (hs[s].kind = "dm" /\ hs[s].fwd # 0) => hs[s].fwd \notin closedRefs

\* C3: dmDisputeRaiser: a failed question DM is followed by exactly one public
\* reply to the trigger message; a DM that went out is followed by none; and
\* when the public reply fails too the function returns normally.
C3_DmFallback ==
    \A s \in Slots :
        LET h == hs[s] IN
        h.kind = "trigger" =>
            /\ h.dm = "ok" => (h.pc = "done" /\ h.replies = 0 /\ h.fallback = "no" /\ ~h.threw)
            /\ (h.dm = "fail" /\ h.pc = "done") =>
                   (h.replies = 1 /\ h.fallback # "no" /\ ~h.threw)
            /\ h.dm = "fail" => h.pc \in {"fallback", "done"}
            /\ h.dm = "no" => h.fallback = "no"
            /\ h.dms <= 1

C3_Witness ==
    \E s \in Slots :
        /\ hs[s].kind = "trigger" /\ hs[s].pc = "done"
        /\ hs[s].dm = "fail" /\ hs[s].fallback = "fail" /\ ~hs[s].threw

\* C4: removeConflictedFromThread: a failed thread-member removal is swallowed:
\* the step after a removal, failed or not, is the loop's next member or the
\* summary message, never a throw; the summary is reached only when every
\* member of the fetched membership has been examined; and after a failed
\* removal the handler still goes on to the DM step once the summary is sent.
C4_AfterRemoval ==
    \A s \in Slots :
        LET h == hs[s]
            g == hs'[s]
        IN
        (h.kind = "trigger" /\ h.pc = "remove") =>
            /\ g.pc = (IF Tail(h.queue) = <<>> THEN "summary" ELSE "gmFetch")
            /\ g.queue = Tail(h.queue)
            /\ ~g.threw
            /\ g.kicked = Append(h.kicked, h.cur)

C4_AfterSummary ==
    \A s \in Slots :
        LET h == hs[s]
            g == hs'[s]
        IN
        (h.kind = "trigger" /\ h.pc = "summary" /\ g.pc # "summary") =>
            \/ g.pc = "dm" /\ ~g.threw
            \/ g.threw /\ faultsLeft' < faultsLeft
            \/ g.threw /\ h.ref \notin alive

C4_AllExamined ==
    \A s \in Slots :
        (hs[s].kind = "trigger" /\ hs[s].pc \in {"summary", "dm", "fallback"}) =>
            hs[s].examined = hs[s].cache

C4_RemovalFailureSwallowed ==
    /\ [][C4_AfterRemoval /\ C4_AfterSummary]_vars
    /\ []C4_AllExamined

C4_Witness ==
    \E s \in Slots :
        /\ hs[s].kind = "trigger" /\ hs[s].pc = "dm"
        /\ hs[s].rmFailed /\ ~hs[s].threw
        /\ Len(hs[s].kicked) = 2

\* C5: when a trigger is handled and every platform call succeeds, then at the
\* DM step no member of the referee thread holds a destination-guild role whose
\* name equals the player's or the opponent's country name or whose bracket
\* code equals the bracket code of either country; and every referee has been
\* added before the first removal, no removal precedes the last addition.
C5_Countries(h) == {h.playerCountry.name, h.opponentCountry.name} \ {<<>>}

C5_Conflicted(m, h) ==
    \E i \in 1..Len(DestMemberRoles(m)) : \E c \in C5_Countries(h) :
        LET n == DestMemberRoles(m)[i].name IN
        \/ n = c
        \/ /\ HasBracket(n) /\ HasBracket(c)
           /\ bracketCode(n) # <<>>
           /\ bracketCode(n) = bracketCode(c)

C5_NoConflictedRefereeAtDm ==
    \A s \in Slots :
        LET h == hs[s] IN
        h.kind = "trigger" =>
            /\ (h.pc = "dm" /\ ~h.failed) =>
                   \A m \in threadMembers[h.ref] : ~C5_Conflicted(m, h)
            /\ h.pc \in {"fetchAll", "add"} => (h.kicked = <<>> /\ h.examined = {})
            /\ h.pc \in {"tmFetch", "gmFetch", "remove", "summary", "dm"} =>
                   (h.added = Len(Refs) /\ h.queue \in Seq(SeqRange(Refs)))

C5_Witness ==
    \E s \in Slots :
        LET h == hs[s] IN
        /\ h.kind = "trigger" /\ h.pc = "dm" /\ ~h.failed
        /\ h.kicked = <<"r1", "r2">>
        /\ threadMembers[h.ref] = {}
        /\ \E m \in SeqRange(Refs) :
              /\ C5_Conflicted(m, h)
              /\ \A i \in 1..Len(DestMemberRoles(m)) :
                     DestMemberRoles(m)[i].name \notin C5_Countries(h)

\* the handler that takes the step: the one just dispatched, or the one running
Actor(s) == IF Resting(hs[s]) THEN hs'[s] ELSE hs[s]

\* C6: for triggers handled one after another inside one dispute thread D, a
\* referee thread is created only when the fetch of the thread recorded in
\* disputeToRefThread[D] returned nothing (no entry yet, or the thread cannot
\* be fetched); a trigger whose fetch returned the recorded thread reuses it
\* and creates none; and a set disputeToRefThread[D] changes only in such a
\* handler, after a failed fetch call when the thread still exists.
C6_CreateOnlyWhenNotFetched ==
    \A s \in Slots :
        LET h == hs[s] IN
        (h.kind = "trigger" /\ IsThread(h.msg.channel)) =>
            /\ h.made # 0 => (h.refFetch = "fail" /\ h.made # h.mapped)
            /\ h.refFetch = "ok" =>
                   /\ h.made = 0 /\ h.ref = h.mapped /\ h.mapped # 0
                   /\ disputeToRefThread[h.msg.channel.id] = h.mapped

C6_MappingChange ==
    \A d \in DisputeThreads :
        (disputeToRefThread[d] # 0 /\ disputeToRefThread'[d] # disputeToRefThread[d]) =>
            \E s \in Slots :
                /\ hs[s].kind = "trigger" /\ hs[s].msg.channel.id = d
                /\ hs[s].refFetch = "fail"
                /\ hs[s].mapped = disputeToRefThread[d]
                /\ disputeToRefThread'[d] = hs[s].made
                /\ (hs[s].mapped \in alive) => hs[s].failed

C6_OneRefThreadPerDispute ==
    /\ []C6_CreateOnlyWhenNotFetched
    /\ [][C6_MappingChange]_vars

C6_Witness ==
    \E s \in Slots :
        LET h == hs[s] IN
        /\ h.kind = "trigger" /\ h.pc = "done" /\ IsThread(h.msg.channel)
        /\ h.refFetch = "ok" /\ h.made = 0 /\ h.ref = 1
        /\ created = 1
        /\ refMeta[1].p1Id = "u2"

\* C8 (and C7): the message carries a detectable opponent country: a mentioned
\* role with a bracketed name other than the author's own country role name
C8_OwnCountryName(m) == getMemberCountry(OriginMemberRoles(m.author)).name

C8_HasOpponent(m) ==
    \E i \in 1..Len(m.mentions) :
        /\ HasBracket(m.mentions[i].name)
        /\ m.mentions[i].name # C8_OwnCountryName(m)

\* C7: a thread is created and the state maps are written by the handler of a
\* message only when the message is in a guild, not from a bot, from a guild of
\* ORIGINS, in that origin's dispute channel or a child of it, mentions that
\* origin's trigger role and carries a detectable opponent country; and every
\* thread created is a child of the destination guild's referee hub channel.
C7_PassesChecks(m) ==
    /\ m.guild # None
    /\ m.author # BotUser
    /\ \/ /\ m.guild = GYM_GUILD_ID
          /\ GYM_DISPUTE_CHANNEL_ID \in {m.channel.id, m.channel.parentId}
          /\ \/ GYM_TRIGGER_ROLE_ID \in m.contentTags
             \/ \E i \in 1..Len(m.mentions) : m.mentions[i].id = GYM_TRIGGER_ROLE_ID
       \/ /\ m.guild = RAID_GUILD_ID
          /\ RAID_DISPUTE_CHANNEL_ID \in {m.channel.id, m.channel.parentId}
          /\ \/ RAID_TRIGGER_ROLE_ID \in m.contentTags
             \/ \E i \in 1..Len(m.mentions) : m.mentions[i].id = RAID_TRIGGER_ROLE_ID

C7_Valid(m) == C7_PassesChecks(m) /\ C8_HasOpponent(m)

C7_Step ==
    \A s \in Slots :
        /\ created' # created =>
               (hs'[s] # hs[s] /\ Actor(s).kind = "trigger" /\ C7_Valid(Actor(s).msg))
        /\ maps' # maps =>
               /\ hs'[s] # hs[s]
               /\ \/ Actor(s).kind = "cmd"
                  \/ Actor(s).kind = "trigger" /\ C7_Valid(Actor(s).msg)

C7_UnderHub == \A t \in 1..created : threadParent[t] = DEST_REF_HUB_CHANNEL_ID

C7_ThreadOnlyForValidTrigger ==
    /\ [][C7_Step]_vars
    /\ []C7_UnderHub

C7_Witness ==
    \E t \in 1..created :
        /\ refThreadToOrigin[t].originGuildId = RAID_GUILD_ID
        /\ refMeta[t].originGuildId = RAID_GUILD_ID
        /\ threadParent[t] = DEST_REF_HUB_CHANNEL_ID
        /\ DEST_GUILD_ID # RAID_GUILD_ID

\* C8: a trigger message that passes the channel and role checks and whose
\* search finds no opponent country gets exactly one reply; its handler
\* creates no thread, sends no DM and leaves every map and closedPlayers as
\* they were.
C8_State ==
    \A s \in Slots :
        LET h == hs[s] IN
        (h.kind = "trigger" /\ C7_PassesChecks(h.msg) /\ ~C8_HasOpponent(h.msg)) =>
            /\ h.made = 0 /\ h.ref = 0 /\ h.dms = 0 /\ h.dm = "no"
            /\ h.searched => h.pc \in {"replyNoOpp", "done"}
            /\ (h.searched /\ h.pc = "done") => (h.replies = 1 /\ h.noOppReply # "no")
            /\ h.replies <= 1

C8_Frame ==
    \A s \in Slots :
        (hs'[s] # hs[s] /\ Actor(s).kind = "trigger" /\ ~C8_HasOpponent(Actor(s).msg)) =>
            UNCHANGED <<maps, created, alive, threadParent, threadMembers>>

C8_NoOpponentOnlyReplies ==
    /\ []C8_State
    /\ [][C8_Frame]_vars

C8_Witness ==
    \E s \in Slots :
        LET h == hs[s] IN
        /\ h.kind = "trigger" /\ h.pc = "done" /\ h.searched
        /\ h.noOppReply = "ok" /\ h.replies = 1
        /\ h.msg.mentions = <<RoleRef, RoleG>>
        /\ h.playerCountry = RoleG
        /\ created = 1

\* C9 as stated: once /close has completed in referee thread T, no map holds
\* an entry of T: no dispute thread and no user is mapped to T, and T has no
\* metadata, raiser or origin entry.
C9_EntriesGoneAfterClose ==
    \A t \in closedRefs :
        /\ \A d \in DisputeThreads : disputeToRefThread[d] # t
        /\ \A u \in Users : playerToRefThread[u] # t
        /\ ~refMeta[t].set
        /\ refThreadToPlayer[t] = None
        /\ refThreadToOrigin[t] = NoOrigin

\* C9 amended: no step deletes a map entry: an entry once set stays set (it can
\* only be overwritten), and the steps of a /close handler leave the five maps
\* as they are; all /close does to the state is add the thread's players
\* (meta.p1Id, meta.p2Id) to closedPlayers.
C9_NoDeletion ==
    /\ \A d \in DisputeThreads : disputeToRefThread[d] # 0 => disputeToRefThread'[d] # 0
    /\ \A u \in Users : playerToRefThread[u] # 0 => playerToRefThread'[u] # 0
    /\ \A t \in Threads :
          /\ refMeta[t].set => refMeta'[t].set
          /\ refThreadToPlayer[t] # None => refThreadToPlayer'[t] # None
          /\ refThreadToOrigin[t] # NoOrigin => refThreadToOrigin'[t] # NoOrigin

C9_CloseFrame ==
    \A s \in Slots :
        (hs'[s] # hs[s] /\ Actor(s).kind = "cmd" /\ Actor(s).cmd.name = "close") =>
            /\ UNCHANGED <<disputeToRefThread, playerToRefThread, refThreadToPlayer,
                           refThreadToOrigin, refMeta>>
            /\ closedPlayers \subseteq closedPlayers'
            /\ closedPlayers' \ closedPlayers \subseteq
                   {u \in Users : \E t \in Threads :
                       t = Actor(s).cmd.thread /\ u \in {refMeta[t].p1Id, refMeta[t].p2Id}}

C9_CloseDeletesNothing == [][C9_NoDeletion /\ C9_CloseFrame]_vars

C9_Witness ==
    \E t \in closedRefs : \E u \in Users :
        /\ disputeToRefThread["d1"] = t
        /\ playerToRefThread[u] = t
        /\ refThreadToPlayer[t] = u
        /\ refMeta[t].set /\ refMeta[t].p1Id = u
        /\ refThreadToOrigin[t].channelId = "d1"
        /\ u \in closedPlayers
        /\ t \in archived /\ t \in locked

\* the referee threads of a user that are open: not closed, and naming the
\* user as raiser or as one of the players
C10_OpenThreads(u) ==
    {t \in alive \ closedRefs :
        refMeta[t].set /\ (refThreadToPlayer[t] = u \/ u \in {refMeta[t].p1Id, refMeta[t].p2Id})}

\* C10 as stated: a DM of a user who has more than one open dispute thread is
\* not forwarded to a thread the bot picked by itself (the listener has no step
\* that offers a choice, so: it is forwarded only when at most one is open).
C10_NoSilentPick ==
    \A s \in Slots :
        (hs[s].kind = "dm" /\ hs[s].fwd # 0) =>
            Cardinality(C10_OpenThreads(hs[s].msg.author)) <= 1

\* C10 amended: the DM listener offers no choice: a DM of a user who is mapped
\* and not closed goes to the one thread playerToRefThread holds for the user
\* (the thread of the user's latest trigger or /set_players), however many
\* open threads name the user, and the user gets no reply.
C10_ForwardsToMappedThread ==
    \A s \in Slots :
        LET h == hs[s] IN
        (h.kind = "dm" /\ IsDirect(h.msg)) =>
            /\ h.pc \in {"dmFetch", "dmSend", "dmResend"} =>
                   (h.ref = playerToRefThread[h.msg.author] /\ h.ref # 0)
            /\ h.fwd # 0 => (h.fwd = playerToRefThread[h.msg.author] /\ h.replies = 0)
            /\ h.msg.author \notin closedPlayers => h.replies = 0

C10_Witness ==
    \E s \in Slots :
        LET h == hs[s] IN
        /\ h.kind = "dm" /\ h.pc = "done"
        /\ h.fwd = playerToRefThread[h.msg.author] /\ h.fwd = 2
        /\ C10_OpenThreads(h.msg.author) = {1, 2}
        /\ refThreadToPlayer[1] = h.msg.author

\* C11 as stated: once the referee thread is there, a single failed platform
\* call does not keep the raiser from the question DM or the fallback reply: a
\* trigger handler that got its thread and ended in a run with at most one
\* failure has attempted the DM.
C11_RaiserAlwaysContacted ==
    \A s \in Slots :
        LET h == hs[s] IN
        (h.kind = "trigger" /\ h.ref # 0 /\ h.pc = "done" /\ faultsLeft >= MaxFaults - 1) =>
            h.dm # "no"

\* C11 amended: only the calls that carry their own catch are local (the source
\* link, members.add, the two fetches of the removal, members.remove, the
\* fallback reply); a failed intro post, member fetch of addAllRefsToThread,
\* 'Added N referees' post or conflict summary post ends the handler in its
\* outer catch: the later steps are skipped and the raiser gets neither the
\* question DM nor the fallback reply.
C11_Failed(h) == faultsLeft' < faultsLeft \/ h.ref \notin alive

C11_Step ==
    \A s \in Slots :
        LET h == hs[s]
            g == hs'[s]
        IN
        h.kind = "trigger" =>
            /\ (h.pc \in {"intro", "addedSend", "summary"} /\ g # h /\ C11_Failed(h)) =>
                   (g.pc = "done" /\ g.threw /\ g.dm = "no" /\ g.dms = 0 /\ g.replies = 0)
            /\ (h.pc = "fetchAll" /\ g # h /\ faultsLeft' < faultsLeft) =>
                   (g.pc = "done" /\ g.threw /\ g.dm = "no" /\ g.dms = 0 /\ g.replies = 0)
            /\ (h.pc \in {"sourceSend", "add", "tmFetch", "gmFetch", "remove", "fallback"}
                  /\ g # h) => ~g.threw

C11_Ended ==
    \A s \in Slots :
        LET h == hs[s] IN
        (h.kind = "trigger" /\ h.ref # 0 /\ h.pc = "done") =>
            /\ h.threw <=> h.dm = "no"
            /\ h.threw => (h.dms = 0 /\ h.replies = 0 /\ h.fallback = "no")

C11_UncaughtFailureEndsHandler ==
    /\ [][C11_Step]_vars
    /\ []C11_Ended

C11_Witness ==
    \E s \in Slots :
        LET h == hs[s] IN
        /\ h.kind = "trigger" /\ h.pc = "done" /\ h.threw
        /\ h.made # 0 /\ h.ref \in alive
        /\ h.added = 0 /\ threadMembers[h.ref] = {}
        /\ h.dm = "no" /\ h.replies = 0
        /\ faultsLeft = MaxFaults - 1

\* C13: findDecisionChannel returns null when either country name is missing;
\* a channel it returns is a guild text channel of the guild whose name contains
\* slug(countryA) and slug(countryB); it returns a match whose name starts with
\* 'post' or 'result' when there is one, otherwise the first match, and null
\* when nothing matches.
C13_Match(c, a, b) ==
    c.type = "GuildText" /\ Includes(c.name, slug(a)) /\ Includes(c.name, slug(b))

C13_FindDecisionChannel ==
    \A s \in Slots :
        LET h == hs[s]
            a == h.playerCountry.name
            b == h.opponentCountry.name
            cs == h.guild.channels
            ms == {i \in 1..Len(cs) : C13_Match(cs[i], a, b)}
            ps == {i \in ms : PostOrResult(cs[i].name)}
        IN
        (h.kind = "find" /\ h.pc = "done") =>
            /\ (a = <<>> \/ b = <<>>) => h.target = NoChan
            /\ h.target # NoChan =>
                   \E i \in ms : cs[i] = h.target
            /\ (a # <<>> /\ b # <<>> /\ ps # {}) =>
                   h.target = cs[CHOOSE i \in ps : \A j \in ps : i <= j]
            /\ (a # <<>> /\ b # <<>> /\ ps = {} /\ ms # {}) =>
                   h.target = cs[CHOOSE i \in ms : \A j \in ms : i <= j]
            /\ (ms = {} \/ ~h.guild.present) => h.target = NoChan

C13_Witness ==
    \E s \in Slots :
        LET h == hs[s] IN
        /\ h.kind = "find" /\ h.pc = "done"
        /\ h.guild.channels = <<ChanGF, ChanResultsFG>>
        /\ h.playerCountry.name = <<"[", "G", "]">>
        /\ h.opponentCountry.name = <<"[", "F", "]">>
        /\ slug(h.opponentCountry.name) = <<"f">>
        /\ h.target = ChanResultsFG

\* ------------------------------------------------------------------- C12
\* a /decision handler that has sent the ruling
C12_Posted(h) == h.kind = "cmd" /\ h.cmd.name = "decision" /\ h.posts = 1

\* C12: /decision posts the ruling to exactly one channel: the override channel
\* when one is supplied, otherwise the country channel found in the origin guild
\* when there is one, otherwise the referee thread; the 'Decision posted to'
\* notice is sent only when the ruling went to another channel than the thread.
C12_DecisionPriority ==
    \A s \in Slots :
        LET h == hs[s] IN
        /\ (h.kind = "cmd" /\ h.cmd.name = "decision") => h.posts <= 1
        /\ C12_Posted(h) =>
              /\ h.cmd.channel # NoChan => h.posted = h.cmd.channel
              /\ (h.cmd.channel = NoChan /\ h.target # NoChan) => h.posted = h.target
              /\ (h.cmd.channel = NoChan /\ h.target = NoChan) => h.posted = ThreadChan
              /\ h.notice # "no" => h.posted # ThreadChan

\* ------------------------------------------------------------------- C14
\* the distinct valid options among the option values of a /vote
C14_Valid(opts) == {LowerKey(opts[i]) : i \in 1..Len(opts)} \cap VOTE_CHOICES

\* where an option occurs first among the option values
C14_First(opts, key) ==
    CHOOSE i \in 1..Len(opts) :
        LowerKey(opts[i]) = key /\ \A j \in 1..(i - 1) : LowerKey(opts[j]) # key

\* the options reacted to so far
C14_Reacted(h) == [i \in 1..Len(h.reacts) |-> h.reacts[i][1]]

\* C14: /vote lists each chosen option at most once, in the order of first
\* occurrence, and only keys of VOTE_CHOICES; with fewer than two distinct valid
\* options it replies 'Pick at least two distinct options.' and posts nothing;
\* otherwise one vote message is posted and one reaction is attempted per listed
\* option in list order, a failed reaction not stopping the later ones.
C14_VoteList ==
    \A s \in Slots :
        LET h == hs[s]
            opts == h.cmd.opts
        IN
        (h.kind = "cmd" /\ h.cmd.name = "vote" /\ h.cmd.thread # 0) =>
            IF Cardinality(C14_Valid(opts)) < 2
            THEN /\ h.said = "Pick at least two distinct options."
                 /\ h.posts = 0 /\ h.reacts = <<>> /\ h.items = <<>>
                 /\ h.pc \in {"cmdReply", "done"}
            ELSE /\ SeqRange(h.items) = C14_Valid(opts)
                 /\ Len(h.items) = Cardinality(C14_Valid(opts))
                 /\ \A i \in 1..Len(h.items) : \A j \in 1..Len(h.items) :
                        i < j => C14_First(opts, h.items[i]) < C14_First(opts, h.items[j])
                 /\ h.posts <= 1
                 /\ h.posts = 0 => h.reacts = <<>>
                 /\ Len(h.reacts) <= Len(h.items)
                 /\ C14_Reacted(h) = SubSeq(h.items, 1, Len(h.reacts))
                 /\ (h.posts = 1 /\ h.pc \in {"cmdReply", "done"}) =>
                        C14_Reacted(h) = h.items

\* a vote whose first reaction failed and whose later reaction was made
C14_Witness ==
    \E s \in Slots :
        LET h == hs[s] IN
        /\ h.kind = "cmd" /\ h.cmd.name = "vote" /\ h.pc = "done"
        /\ h.cmd.opts = <<"rematch", "REMATCH", "invalid">>
        /\ h.reacts = << <<"rematch", FALSE>>, <<"invalid", TRUE>> >>
        /\ h.cmdReply = "ok"

\* ------------------------------------------------------------------- C16
\* a command handler invoked in a channel that is no thread
C16_Outside(h) == h.kind = "cmd" /\ h.cmd.thread = 0

\* such a handler is at the reply or past it, and has sent and posted nothing
C16_State ==
    \A s \in Slots :
        LET h == hs[s] IN
        C16_Outside(h) =>
            /\ h.pc \in {"notThreadReply", "done"}
            /\ h.pc = "done" => h.said = "Use this inside a **Dispute Thread**."
                                 /\ h.cmdReply # "no"
            /\ h.dms = 0 /\ h.dm = "no" /\ h.posts = 0 /\ h.echo = "no" /\ h.notice = "no"
            /\ h.marks = <<>> /\ h.reacts = <<>> /\ h.fwd = 0 /\ h.replies = 0

\* its steps change no map, no closedPlayers and no thread
C16_Frame ==
    \A s \in Slots :
        (hs'[s] # hs[s] /\ C16_Outside(Actor(s))) =>
            UNCHANGED <<maps, platform, closedRefs, shut>>

\* C16: every slash command invoked in a channel that is not a thread gets the
\* ephemeral reply 'Use this inside a **Dispute Thread**.' and nothing else
\* happens: no map or closedPlayers change, no DM, no post, no rename, archive
\* or lock.
C16_OutsideThreadOnlyReply == []C16_State /\ [][C16_Frame]_vars

\* the reply was made for a /close outside a thread while a dispute is open
C16_Witness ==
    \E s \in Slots :
        LET h == hs[s] IN
        /\ C16_Outside(h) /\ h.cmd.name = "close" /\ h.pc = "done" /\ h.cmdReply = "ok"
        /\ alive # {} /\ closedPlayers = {} /\ archived = {} /\ locked = {}

\* ------------------------------------------------------------------- C17
\* the targeted player ids that are set, player 1 before player 2
C17_Ids(target, meta) ==
    LET named == IF target = "p1" THEN <<meta.p1Id>>
                 ELSE IF target = "p2" THEN <<meta.p2Id>>
                 ELSE <<meta.p1Id, meta.p2Id>>
        IsSet(x) == x # None
    IN SelectSeq(named, IsSet)

\* the ids the handler has made a DM attempt for, in order
C17_Attempted(h) == [i \in 1..Len(h.marks) |-> h.marks[i][1]]

\* C17: /message with none of the targeted players set replies 'Player(s) not
\* set yet' and sends no DM and no echo; otherwise it attempts one DM per
\* targeted id that is set, player 1 before player 2, a failed DM not preventing
\* the other, and makes one echo post in the thread with one mark per id.
C17_MessageDms ==
    \A s \in Slots :
        LET h == hs[s]
            ids == C17_Ids(h.cmd.target, MetaOf(h.ref))
        IN
        (h.kind = "cmd" /\ h.cmd.name = "message" /\ h.cmd.thread # 0) =>
            IF ids = <<>>
            THEN /\ h.said = "Player(s) not set yet"
                 /\ h.dms = 0 /\ h.marks = <<>> /\ h.echo = "no" /\ h.posts = 0
                 /\ h.pc \in {"cmdReply", "done"}
            ELSE /\ h.dms = Len(h.marks) /\ Len(h.marks) <= Len(ids)
                 /\ C17_Attempted(h) = SubSeq(ids, 1, Len(h.marks))
                 /\ h.pc = "msgDm" <=> Len(h.marks) < Len(ids)
                 /\ h.pc = "msgEcho" => h.echo = "no"
                 /\ h.pc \in {"cmdReply", "done"} =>
                        h.echo # "no" /\ C17_Attempted(h) = ids
                 /\ h.posts = (IF h.echo = "ok" THEN 1 ELSE 0)
                 /\ h.said \in {None, "Sent."}
                 /\ h.said = "Sent." => h.echo = "ok"

\* 'both' with both players set: the DM to player 1 failed, the DM to player 2
\* was sent, and the echo carries both marks
C17_Witness ==
    \E s \in Slots :
        LET h == hs[s] IN
        /\ h.kind = "cmd" /\ h.cmd.name = "message" /\ h.cmd.target = "both"
        /\ h.ref \in Threads /\ refMeta[h.ref].p1Id = "u1" /\ refMeta[h.ref].p2Id = "u2"
        /\ h.marks = << <<"u1", FALSE>>, <<"u2", TRUE>> >>
        /\ h.echo = "ok" /\ h.pc = "done" /\ h.cmdReply = "ok"

\* ------------------------------------------------------------------- C18
\* user u was named by a /set_players in thread t, which no /close and no
\* later mapping of u has followed
C18_SetIn(u, t) ==
    /\ t \in alive /\ t \notin closedRefs
    /\ refMeta[t].p2Id # None
    /\ u \in {refMeta[t].p1Id, refMeta[t].p2Id}
    /\ playerToRefThread[u] = t

\* C18: after /set_players(player1 = a, player2 = b) has run in referee thread
\* T, a direct message from a or from b is forwarded to T, whatever disputes a
\* and b took part in before (stated for runs without a failed call).
C18_SetPlayersForwards ==
    \A s \in Slots : \A t \in Threads :
        LET h == hs[s] IN
        (/\ h.kind = "dm" /\ IsDirect(h.msg) /\ h.pc = "done"
         /\ faultsLeft = MaxRouteFaults
         /\ C18_SetIn(h.msg.author, t)) => h.fwd = t

\* ------------------------------------------------------------------- C19
\* the metadata of thread t holds the issue and both players
C19_Complete(t) ==
    refMeta[t].issue # None /\ refMeta[t].p1Id # None /\ refMeta[t].p2Id # None

\* '<issue> - <player1 name> vs <player2 name>' of thread t
C19_Title(t) == <<refMeta[t].issue, refMeta[t].p1Id, refMeta[t].p2Id>>

\* a /set_players or /set_issue handler that is past renameThreadByMeta
C19_Renamed(h) ==
    /\ h.kind = "cmd" /\ h.cmd.name \in {"set_players", "set_issue"}
    /\ h.cmd.thread # 0 /\ h.pc \in {"cmdReply", "done"}

\* with complete metadata the thread carries the title after the command
\* (in runs without a failed call, the thread still there)
C19_State ==
    \A s \in Slots :
        LET h == hs[s] IN
        (C19_Renamed(h) /\ h.ref \in alive /\ faultsLeft = MaxRouteFaults
            /\ C19_Complete(h.ref)) => threadName[h.ref] = C19_Title(h.ref)

\* a name changes only to the title of complete metadata, and a command that
\* finds the title in place does not rename
C19_Step ==
    \A t \in Threads :
        /\ (threadName'[t] # threadName[t] /\ created' = created) =>
              /\ C19_Complete(t)
              /\ faultsLeft = MaxRouteFaults => threadName'[t] = C19_Title(t)
        /\ \A s \in Slots :
              (hs'[s] # hs[s] /\ hs'[s].pc = "setName" /\ hs'[s].ref = t) =>
                  threadName[t] # Title(refMeta[t], hs'[s].names)

C20_Maps(s) == hs[s].kind = "trigger" /\ hs[s].pc # "intro" /\ hs'[s].pc = "intro"

\* the next message after a trigger handled up to the mapping step is a direct
\* message of its author
C20_NextDm(s) ==
    /\ hs[s].kind = "trigger" /\ hs[s].pc = "done" /\ hs[s].ref # 0
    /\ hs'[s].kind = "dm" /\ IsDirect(hs'[s].msg)
    /\ hs'[s].msg.author = hs[s].msg.author

C20_Step ==
    \A s \in Slots :
        /\ C20_Maps(s) =>
              /\ hs[s].msg.author \notin closedPlayers'
              /\ playerToRefThread'[hs[s].msg.author] = hs'[s].ref
        /\ C20_NextDm(s) =>
              /\ hs'[s].pc = "dmFetch"
              /\ hs'[s].ref = hs[s].ref

\* a direct message sent on to its thread arrives there (no failed call, the
\* thread still there)
C20_Forwarded ==
    \A s \in Slots :
        LET h == hs[s] IN
        (h.kind = "dm" /\ h.pc = "done" /\ h.ref # 0 /\ h.ref \in alive
            /\ faultsLeft = MaxRouteFaults) =>
            h.fwd = h.ref /\ h.closedReply = "no"

\* C20: a valid trigger of a user who is in closedPlayers, handled up to the
\* mapping step, removes the user from closedPlayers and maps the user to the
\* referee thread of the new trigger, so the user's next direct message is
\* forwarded to that thread and not answered with the 'Closed' reply.
C20_TriggerReopensRaiser == [][C20_Step]_vars /\ []C20_Forwarded

\* u1's first dispute was closed, u1 raised a second one, and u1's direct
\* message went to the second thread
C20_Witness ==
    \E s \in Slots :
        LET h == hs[s] IN
        /\ h.kind = "dm" /\ h.pc = "done" /\ h.msg.author = "u1"
        /\ refThreadToPlayer[1] = "u1" /\ refMeta[1].p1Id = "u1" /\ 1 \in closedRefs
        /\ refThreadToPlayer[2] = "u1"
        /\ h.fwd = 2 /\ h.closedReply = "no"
        /\ eventsLeft = 0

\* ------------------------------------------------------------------- C15
\* a finished /close or /reopen of the given name that resolved a player
C15_Ran(h, name) ==
    h.kind = "cmd" /\ h.cmd.name = name /\ h.cur # None /\ h.pc = "done"

\* the next event after handler h is the command of the given name in the
\* same thread, taken by slot s
C15_Then(s, name) ==
    /\ hs'[s] # hs[s]
    /\ hs'[s].kind = "cmd" /\ hs'[s].cmd.name = name
    /\ hs'[s].cmd.thread = hs[s].cmd.thread

C15_Step ==
    \A s \in Slots :
        \* /reopen right after /close restores closedPlayers when u was open
        /\ (C15_Ran(hs[s], "close") /\ C15_Then(s, "reopen")
                /\ hs[s].cur \notin hs[s].before) =>
              closedPlayers' = hs[s].before /\ hs'[s].cur = hs[s].cur
        \* a second /close, or a second /reopen, changes nothing
        /\ (C15_Ran(hs[s], "close") /\ C15_Then(s, "close")) =>
              closedPlayers' = closedPlayers
        /\ (C15_Ran(hs[s], "reopen") /\ C15_Then(s, "reopen")) =>
              closedPlayers' = closedPlayers
        \* the next direct message of u after /reopen is sent on to the thread
        /\ (/\ C15_Ran(hs[s], "reopen")
            /\ playerToRefThread[hs[s].cur] = hs[s].cmd.thread
            /\ hs'[s] # hs[s]
            /\ hs'[s].kind = "dm" /\ IsDirect(hs'[s].msg)
            /\ hs'[s].msg.author = hs[s].cur) =>
              hs'[s].pc = "dmFetch" /\ hs'[s].ref = hs[s].cmd.thread
        \* a command writes closedPlayers only before its first await
        /\ (hs[s].kind = "cmd" /\ ~Resting(hs[s]) /\ hs'[s] # hs[s]) =>
              closedPlayers' = closedPlayers

\* a direct message sent on to its thread arrives there (no failed call, the
\* thread still there)
C15_Forwarded ==
    \A s \in Slots :
        LET h == hs[s] IN
        (h.kind = "dm" /\ h.pc = "done" /\ h.closedReply = "no"
            /\ h.ref # 0 /\ h.ref \in alive /\ faultsLeft = MaxReopenFaults) =>
            h.fwd = h.ref

\* C15: /reopen undoes /close: for a thread whose player u can be resolved,
\* /close followed by /reopen leaves closedPlayers as it was before the /close
\* when u was open, direct messages from u are forwarded to the thread again
\* after /reopen, and /close and /reopen are each idempotent on closedPlayers.
C15_ReopenUndoesClose == [][C15_Step]_vars /\ []C15_Forwarded

\* u1 was closed by a /close after u1's trigger and is open again, and u1's
\* direct message arrived in the thread
C15_Witness ==
    \E s \in Slots :
        LET h == hs[s] IN
        /\ profile = "reopen"
        /\ h.kind = "dm" /\ h.pc = "done" /\ h.msg.author = "u1"
        /\ "u1" \in shut /\ closedPlayers = {}
        /\ playerToRefThread["u1"] = 1 /\ h.fwd = 1

\* ------------------------------------------------------------------- C21
\* a finished trigger handler for a message in dispute thread d
C21_FinishedIn(h, d) ==
    /\ h.kind = "trigger" /\ IsTrigger(h.msg) /\ h.pc = "done"
    /\ IsThread(h.msg.channel) /\ h.msg.channel.id = d

\* the referee threads the two handlers created
C21_Made == {hs[s].made : s \in RaceSlots} \ {0}

\* C21: two trigger handlers interleaved at their awaits for two trigger
\* messages in the same dispute thread D never create two referee threads for
\* D: when both have finished at most one thread was created, and
\* disputeToRefThread[D], playerToRefThread of the authors and
\* refThreadToPlayer refer to the one thread the handlers used (stated for
\* runs without a failed call).
C21_OneRefThreadPerDispute ==
    \A d \in DisputeThreads :
        (/\ \A s \in RaceSlots : C21_FinishedIn(hs[s], d)
         /\ faultsLeft = MaxRaceFaults) =>
            /\ Cardinality(C21_Made) <= 1
            /\ \A s \in RaceSlots :
                   LET h == hs[s] IN
                   /\ disputeToRefThread[d] = h.ref
                   /\ playerToRefThread[h.msg.author] = h.ref
                   /\ refThreadToPlayer[h.ref] \in {hs[r].msg.author : r \in RaceSlots}

\* ------------------------------------------------------------------- C22
\* the step in which the DM handler s sends its message into thread t
C22_Forwards(s, t) ==
    /\ hs[s].kind = "dm" /\ IsDirect(hs[s].msg)
    /\ hs[s].pc \in {"dmSend", "dmResend"} /\ hs[s].fwd = 0
    /\ hs'[s].msg = hs[s].msg /\ hs'[s].fwd = t

\* the /close reply for thread t has been sent, and u is a player of t that
\* this /close put into closedPlayers
C22_ClosedFor(t, u) ==
    /\ u \in {refMeta[t].p1Id, refMeta[t].p2Id} /\ u \in closedPlayers
    /\ \E r \in RaceSlots :
          /\ hs[r].kind = "cmd" /\ hs[r].cmd.name = "close" /\ hs[r].ref = t
          /\ hs[r].pc = "done" /\ hs[r].cmdReply = "ok"

\* C22: under every interleaving of the DM-mirror handler and the /close
\* handler at their awaits, no direct message from a player of referee thread
\* T is forwarded into T after the /close reply for T has been sent (stated
\* for runs without a failed call).
C22_NoForwardAfterCloseReply ==
    [][\A s \in RaceSlots : \A t \in Threads :
          (C22_Forwards(s, t) /\ faultsLeft = MaxRaceFaults) =>
              ~C22_ClosedFor(t, hs[s].msg.author)]_vars
====
